---- MODULE Spec2Model ----
(***************************************************************************)
(* Model of the nagare MCP server runtime: the per-client session          *)
(* (nagare/server/mcp/client.py: JSON-RPC dispatch, pending-response       *)
(* table, cleanup, SSE sending loop) and the MCPApp routes                 *)
(* (nagare/server/mcp/application.py).                                     *)
(*                                                                         *)
(* Python values are encoded as follows.  None (or an absent key) is the   *)
(* empty sequence and a present value v is <<v>>.  A method string is the  *)
(* sequence of its name and separator tokens, "tools.list" being           *)
(* <<"tools", ".", "list">>.  A wall-clock timestamp t is kept as the time *)
(* elapsed since t (now - t), so `now > t + P` reads `elapsed > P`.        *)
(***************************************************************************)
EXTENDS Integers, Sequences, FiniteSets, TLC

VARIABLES
    capabilities,        \* Client.capabilities: keys declared by the client
    logging_level,       \* Client.logging_level
    roots,               \* Client.roots
    channel,             \* Client.channel: outbound queue of payloads
    request_id,          \* Client.request_id: last server-issued request id
    response_callbacks,  \* Client.response_callbacks: ordered pending table
    last_message_sent,   \* time elapsed since Client.last_message_sent
    last_cleanup,        \* time elapsed since Client.last_cleanup
    pc,                  \* position of the sending task in start_sending_loop
    id_,                 \* start_sending_loop: current SSE event id
    data,                \* start_sending_loop: local `data` (None = unbound)
    kept,                \* cleanup: the table built by dropwhile, not yet stored
    waited,              \* channel.get has waited its 1 s on an empty queue
    chunks,              \* chunks of the lazy payload sent so far
    reply,               \* value handle_json_rpc returned to the POST worker
    req,                 \* the frame the POST worker is handling, if any
    ran,                 \* handlers run for that frame
    invoked,             \* callbacks invoked so far, by request id
    enqueued,            \* serials of all payloads put on the channel, in order
    written,             \* SSE events written so far, in order
    closed,              \* close() calls per payload serial
    lifecycle,           \* `initialize` requests answered, `initialized` notified
    streams,             \* state of the streams a resource handler returned, by serial
    channels,            \* MCPApp.channels: ids of the channels in the map
    lock,                \* MCPApp.lock: the connection holding it, if any
    conn,                \* position of each GET connection in the SSE route
    client_capabilities, \* MCPApp.client_capabilities: keys declared
    response_handler,    \* MCPApp.response_handler
    app_roots,           \* MCPApp.roots
    post,                \* the last POST the MCPApp route handled: its outcome
    input,               \* arguments of a capability call studied on its own
    output,              \* what that call returned, None before the call
    workers              \* POST workers inside Client.create_rpc_request

vars ==
    <<capabilities, logging_level, roots, channel, request_id,
      response_callbacks, last_message_sent, last_cleanup, pc, id_, data,
      kept, waited, chunks, reply, req, ran, invoked, enqueued, written,
      closed, lifecycle, streams, channels, lock, conn, client_capabilities,
      response_handler, app_roots, post, input, output, workers>>

\* The application-wide state of MCPApp and the calls studied on their own.
appVars ==
    <<channels, lock, conn, client_capabilities, response_handler, app_roots,
      post>>
callVars == <<input, output, workers>>
otherVars == <<appVars, callVars>>

(***************************************************************************)
(* Bounds of the model.                                                    *)
(***************************************************************************)
MaxRequests == 2     \* server-issued requests per session
MaxEvents == 3       \* payloads put on the channel per session
MaxChunks == 1       \* chunks yielded by one lazy payload
MaxConns == 2        \* GET connections made to the application
MaxItems == 2        \* elements of a list or tuple a tool handler returns
MaxUri == 3          \* characters of a URI that is read
MaxRegistered == 3   \* resources registered
MaxBytes == 7        \* items (bytes or characters) of a stream
MaxChunkSize == 6    \* chunk_size of the streaming encoder
MaxWorkers == 2       \* POST workers that build a request at the same time

(***************************************************************************)
(* Program constants.                                                      *)
(***************************************************************************)
METHOD_NOT_FOUND == -32601
INVALID_PARAMS == -32602
INTERNAL_ERROR == -32603
CLEANUP_PERIODICITY == 10
QueueTimeout == 1    \* channel.get(timeout=1)
PingTimeout == 5     \* ping_timeout handed to start_sending_loop (its default)

LOGGING_LEVELS ==
    [debug |-> 0, info |-> 1, notice |-> 2, warning |-> 3, error |-> 4,
     critical |-> 5, alert |-> 6, emergency |-> 7]

None == <<>>
Some(v) == <<v>>

\* One queue timeout later.  An elapsed time saturates just above the period
\* it is compared to.
Elapse(t, period) ==
    IF t + QueueTimeout > period THEN period + QueueTimeout ELSE t + QueueTimeout

(***************************************************************************)
(* JSON-RPC frames built by the session.                                   *)
(***************************************************************************)
NoReply == [kind |-> "none", id |-> None, code |-> 0]
Raised == [kind |-> "raise", id |-> None, code |-> 0]

create_rpc_response(response_id) ==
    [kind |-> "result", id |-> response_id, code |-> 0]

create_rpc_error(response_id, code) ==
    [kind |-> "error", id |-> response_id, code |-> code]

create_rpc_streaming_response(response_id) ==
    [kind |-> "stream", id |-> response_id, code |-> 0]

RequestFrame(n) == [kind |-> "request", id |-> Some(n), code |-> 0]

(***************************************************************************)
(* The nested export table.  A nested dict is the set of its leaves, each  *)
(* the path of keys leading to a handler.                                  *)
(***************************************************************************)
ToolsExports ==
    {[path |-> <<"list">>, f |-> "Tools.list"],
     [path |-> <<"call">>, f |-> "Tools.call"]}

ResourcesExports ==
    {[path |-> <<"list">>, f |-> "Resources.list_concretes"],
     [path |-> <<"templates", "list">>, f |-> "Resources.list_templates"],
     [path |-> <<"read">>, f |-> "Resources.read"],
     [path |-> <<"complete">>, f |-> "Resources.complete"]}

PromptsExports ==
    {[path |-> <<"list">>, f |-> "Prompts.list"],
     [path |-> <<"complete">>, f |-> "Prompts.complete"],
     [path |-> <<"get">>, f |-> "Prompts.get"]}

Under(name, exports) ==
    {[path |-> <<name>> \o e.path, f |-> e.f] : e \in exports}

\* The table the application hands to Client.__init__.
AppExports ==
    Under("tools", ToolsExports) \cup Under("resources", ResourcesExports)
        \cup Under("prompts", PromptsExports)
        \cup {[path |-> <<"initialize">>, f |-> "initialize"]}

SessionExports ==
    {[path |-> <<"notifications", "initialized">>, f |-> "Client.on_initialized"],
     [path |-> <<"notifications", "cancelled">>, f |-> "Client.on_cancel"],
     [path |-> <<"notifications", "roots", "list_changed">>,
      f |-> "Client.on_roots_changed"],
     [path |-> <<"ping">>, f |-> "Client.ping"],
     [path |-> <<"logging", "setLevel">>, f |-> "Client.set_logging_level"],
     [path |-> <<"completion", "complete">>, f |-> "Client.complete"]}

\* dict | dict: the keys of the right operand replace those of the left.
DictUnion(a, b) ==
    b \cup {e \in a : \A x \in b : x.path[1] # e.path[1]}

rpc_exports == DictUnion(AppExports, SessionExports)

IsStrictPrefix(p, q) ==
    /\ Len(p) < Len(q)
    /\ \A i \in 1..Len(p) : p[i] = q[i]

\* d.get(name, {}) on the value d reached so far: a dict of the table (kind
\* "dict", at `path`), the default {} (kind "empty") or a handler (kind "func").
DictGet(exports, d, name) ==
    LET p == Append(d.path, name) IN
    CASE d.kind = "raise" -> d
      [] d.kind = "func" -> [kind |-> "raise", path |-> d.path, f |-> ""]
      [] d.kind = "empty" -> d
      [] OTHER ->
            IF \E e \in exports : e.path = p
            THEN [kind |-> "func", path |-> p,
                  f |-> (CHOOSE e \in exports : e.path = p).f]
            ELSE IF \E e \in exports : IsStrictPrefix(p, e.path)
            THEN [kind |-> "dict", path |-> p, f |-> ""]
            ELSE [kind |-> "empty", path |-> <<>>, f |-> ""]

\* functools.reduce(lambda d, name: d.get(name, {}), names, exports)
RECURSIVE Reduce(_, _, _)
Reduce(exports, d, names) ==
    IF names = <<>> THEN d
    ELSE Reduce(exports, DictGet(exports, d, Head(names)), Tail(names))

Resolve(exports, names) ==
    Reduce(exports, [kind |-> "dict", path |-> <<>>, f |-> ""], names)

\* method.replace('.', '/')
Replace(method) ==
    [i \in 1..Len(method) |-> IF method[i] = "." THEN "/" ELSE method[i]]

\* method.split('/') on the token sequence; `cur` is the name read so far
\* ("" before a name token).  Name tokens never follow one another.
RECURSIVE SplitFrom(_, _)
SplitFrom(method, cur) ==
    IF method = <<>> THEN <<cur>>
    ELSE IF Head(method) = "/" THEN <<cur>> \o SplitFrom(Tail(method), "")
    ELSE SplitFrom(Tail(method), Head(method))

Split(method) == SplitFrom(method, "")

(***************************************************************************)
(* Incoming frames.  `params` lists the keyword arguments present (keys)   *)
(* and the values the handlers read; known, argsOk and raises say how the  *)
(* registry lookup, the prototype and the user's handler turn out;         *)
(* generator says that the handler is a generator function, whose body     *)
(* runs when the generator it returns is iterated.                         *)
(***************************************************************************)
NoParams ==
    [keys |-> {}, level |-> "", capabilities |-> {}, refType |-> None,
     known |-> TRUE, argsOk |-> TRUE, raises |-> FALSE, generator |-> FALSE]

LevelParams(level) == [NoParams EXCEPT !.keys = {"level"}, !.level = level]

CancelParams == [NoParams EXCEPT !.keys = {"requestId", "reason"}]

InitParams(caps) ==
    [NoParams EXCEPT !.keys = {"capabilities"}, !.capabilities = caps]

RefParams(refType, raises) ==
    [NoParams EXCEPT !.keys = {"ref", "argument"}, !.refType = refType,
                     !.raises = raises]

NamedParams(keys, known, argsOk, raises) ==
    [NoParams EXCEPT !.keys = keys, !.known = known, !.argsOk = argsOk,
                     !.raises = raises]

\* How a call that reaches the registry can turn out.
Outcomes(keys) ==
    {NamedParams(keys, TRUE, TRUE, FALSE), NamedParams(keys, FALSE, TRUE, FALSE),
     NamedParams(keys, TRUE, FALSE, FALSE), NamedParams(keys, TRUE, TRUE, TRUE)}

Methods ==
    {<<"initialize">>, <<"ping">>, <<"logging", ".", "setLevel">>,
     <<"notifications", "/", "initialized">>,
     <<"notifications", "/", "cancelled">>,
     <<"notifications", "/", "roots", "/", "list_changed">>,
     <<"completion", "/", "complete">>,
     <<"tools", "/", "list">>, <<"tools", "/", "call">>,
     <<"resources", "/", "templates", "/", "list">>,
     <<"resources", "/", "read">>, <<"prompts", "/", "get">>,
     <<"nosuch">>, <<"tools", "/", "nosuch">>, <<"notifications", "/", "roots">>,
     <<"ping", "/", "extra">>, <<"/", "ping">>}

\* A frame of the client carries no id or an id.
ClientIds == {None, Some(1)}

BlankFrame ==
    [method |-> <<>>, id |-> None, params |-> NoParams, error |-> FALSE,
     hasResult |-> FALSE, resultOk |-> FALSE, roots |-> {}]

Call_(m, p) == [method |-> m, params |-> p]

\* Every method without parameters, and each handler with the parameters it
\* reads and with parameters it may not take.
MethodCalls ==
    {Call_(m, NoParams) : m \in Methods}
    \cup {Call_(m, CancelParams) :
            m \in {<<"notifications", "/", "cancelled">>,
                   <<"notifications", "/", "initialized">>, <<"ping">>}}
    \cup {Call_(<<"logging", ".", "setLevel">>, LevelParams(l)) :
            l \in {"debug", "verbose"}}
    \cup {Call_(<<"initialize">>, InitParams(c)) : c \in {{}, {"roots"}}}
    \cup {Call_(<<"completion", "/", "complete">>, p) :
            p \in {RefParams(<<"ref/", "prompt">>, FALSE),
                   RefParams(<<"ref/", "resource">>, FALSE),
                   RefParams(<<"ref/", "tool">>, FALSE),
                   RefParams(<<"prompt">>, TRUE),
                   RefParams(<<"prompt">>, FALSE)}}
    \cup {Call_(<<"tools", "/", "call">>, p) :
            p \in Outcomes({"name", "arguments"})}
    \cup {Call_(<<"prompts", "/", "get">>, p) :
            p \in Outcomes({"name", "arguments"})
                    \cup {NamedParams({"name"}, TRUE, TRUE, FALSE)}}
    \cup {Call_(<<"resources", "/", "read">>, p) :
            p \in Outcomes({"uri"})
                    \cup {[NamedParams({"uri"}, TRUE, TRUE, TRUE)
                             EXCEPT !.generator = TRUE]}}

MethodFrames ==
    {[BlankFrame EXCEPT !.method = c.method, !.id = i, !.params = c.params] :
        c \in MethodCalls, i \in ClientIds}

\* Results for the ids the session may have issued and for one it has not.
ResultFrames ==
    {[BlankFrame EXCEPT !.id = i, !.hasResult = TRUE, !.resultOk = ok,
                        !.roots = IF ok THEN {"file:///a"} ELSE {}] :
        i \in {None} \cup {Some(n) : n \in 1..(MaxRequests + 1)},
        ok \in BOOLEAN}

ErrorFrames ==
    {[BlankFrame EXCEPT !.id = i, !.error = TRUE] : i \in ClientIds}

Frames == MethodFrames \cup ResultFrames \cup ErrorFrames \cup {BlankFrame}

(***************************************************************************)
(* Handlers.  Each yields the frame it returns (or that it raised) and the *)
(* session fields it leaves behind.                                        *)
(***************************************************************************)
\* The outcome of a call that changes nothing and returns r.
Returns(r, hs) ==
    [reply |-> r, ran |-> hs, capabilities |-> capabilities,
     logging_level |-> logging_level, request_id |-> request_id,
     response_callbacks |-> response_callbacks, roots |-> roots,
     invoked |-> invoked]

\* Keyword parameters of each handler: those it names, those without a
\* default, and whether it takes **params.
Signature(h) ==
    CASE h = "Client.set_logging_level" ->
            [named |-> {"level"}, required |-> {"level"}, varkw |-> TRUE]
      [] h = "Client.on_initialized" ->
            [named |-> {}, required |-> {}, varkw |-> FALSE]
      [] h = "Client.on_roots_changed" ->
            [named |-> {}, required |-> {}, varkw |-> FALSE]
      [] h = "Client.on_cancel" ->
            [named |-> {"requestId", "reason"},
             required |-> {"requestId", "reason"}, varkw |-> TRUE]
      [] h \in {"Client.complete", "Resources.complete", "Prompts.complete"} ->
            [named |-> {"argument", "ref"}, required |-> {"argument", "ref"},
             varkw |-> TRUE]
      [] h = "initialize" ->
            [named |-> {"capabilities"}, required |-> {"capabilities"},
             varkw |-> TRUE]
      [] h = "Tools.call" ->
            [named |-> {"name", "arguments"}, required |-> {"name"},
             varkw |-> TRUE]
      [] h = "Prompts.get" ->
            [named |-> {"name", "arguments"},
             required |-> {"name", "arguments"}, varkw |-> TRUE]
      [] h = "Resources.read" ->
            [named |-> {"uri"}, required |-> {"uri"}, varkw |-> TRUE]
      [] OTHER -> [named |-> {}, required |-> {}, varkw |-> TRUE]

\* Python raises TypeError when the keywords do not fit the signature.
Binds(h, keys) ==
    /\ Signature(h).required \subseteq keys
    /\ Signature(h).varkw \/ keys \subseteq Signature(h).named

\* Client.create_rpc_request: the next id, registered with the time and callback.
create_rpc_request(callback) ==
    [Returns(RequestFrame(request_id + 1), {}) EXCEPT
        !.request_id = request_id + 1,
        !.response_callbacks =
            Append(response_callbacks,
                   [id |-> request_id + 1, elapsed |-> 0, callback |-> callback])]

list_roots == create_rpc_request("on_roots_received")

on_initialized ==
    IF "roots" \in capabilities
    THEN [list_roots EXCEPT !.ran = {"Client.on_initialized"}]
    ELSE Returns(NoReply, {"Client.on_initialized"})

\* The request built by list_roots is dropped: nothing is returned.
on_roots_changed ==
    [list_roots EXCEPT !.reply = NoReply, !.ran = {"Client.on_roots_changed"}]

on_cancel == Returns(NoReply, {"Client.on_cancel"})

ping(rid) == Returns(create_rpc_response(rid), {"Client.ping"})

set_logging_level(rid, level) ==
    IF level \in DOMAIN LOGGING_LEVELS
    THEN [Returns(create_rpc_response(rid), {"Client.set_logging_level"}) EXCEPT
            !.logging_level = LOGGING_LEVELS[level]]
    ELSE Returns(Raised, {"Client.set_logging_level"})

\* The application's `initialize` handler: records the client capabilities
\* (Client.initialize) and answers with the server's description.
initialize(rid, caps) ==
    [Returns(create_rpc_response(rid), {"initialize"}) EXCEPT
        !.capabilities = caps]

Tools_call(rid, p) ==
    Returns(
        IF ~p.known THEN create_rpc_error(rid, METHOD_NOT_FOUND)
        ELSE IF ~p.argsOk THEN create_rpc_error(rid, INVALID_PARAMS)
        ELSE create_rpc_response(rid),
        IF p.known /\ p.argsOk THEN {"Tools.call", "tool"} ELSE {"Tools.call"})

Prompts_get(rid, p) ==
    Returns(
        IF ~p.known \/ ~p.argsOk THEN create_rpc_error(rid, INVALID_PARAMS)
        ELSE IF p.raises THEN create_rpc_error(rid, INTERNAL_ERROR)
        ELSE create_rpc_response(rid),
        IF p.known /\ p.argsOk THEN {"Prompts.get", "prompt"} ELSE {"Prompts.get"})

\* Resources.read.  The handler is called inside the try block; a generator
\* it returns is iterated after it, by `for stream in data`.
Resources_read(rid, p) ==
    Returns(
        IF ~p.known THEN create_rpc_error(rid, INVALID_PARAMS)
        ELSE IF p.raises /\ p.generator THEN Raised
        ELSE IF p.raises THEN create_rpc_error(rid, INTERNAL_ERROR)
        ELSE create_rpc_streaming_response(rid),
        IF p.known THEN {"Resources.read", "resource"} ELSE {"Resources.read"})

\* Resources.complete and Prompts.complete: the completion closure runs unguarded.
Capability_complete(h, rid, p) ==
    Returns(
        IF ~p.known THEN create_rpc_error(rid, INVALID_PARAMS)
        ELSE IF p.raises THEN Raised
        ELSE create_rpc_response(rid),
        {h})

\* str.removeprefix('ref/')
RemovePrefix(t) == IF t # <<>> /\ Head(t) = "ref/" THEN Tail(t) ELSE t

\* '{}s'.format(name)
Plural(name) ==
    CASE name = "prompt" -> "prompts"
      [] name = "resource" -> "resources"
      [] name = "tool" -> "tools"
      [] OTHER -> "s"

RECURSIVE invoke(_, _, _)

\* Client.complete: dispatches again on '<type>s/complete'.
complete(rid, p) ==
    IF p.refType = None THEN Returns(Raised, {"Client.complete"})
    ELSE LET names == <<Plural(RemovePrefix(p.refType)[1]), "complete">>
             out == invoke(names, rid, [p EXCEPT !.keys = {"argument", "ref"}])
         IN [out EXCEPT !.ran = out.ran \cup {"Client.complete"}]

\* f(self, request_id, **kw) for the handler f the table resolved.
Call(h, rid, p) ==
    IF ~Binds(h, p.keys) THEN Returns(Raised, {})
    ELSE CASE h = "Client.ping" -> ping(rid)
           [] h = "Client.set_logging_level" -> set_logging_level(rid, p.level)
           [] h = "Client.on_initialized" -> on_initialized
           [] h = "Client.on_roots_changed" -> on_roots_changed
           [] h = "Client.on_cancel" -> on_cancel
           [] h = "Client.complete" -> complete(rid, p)
           [] h = "initialize" -> initialize(rid, p.capabilities)
           [] h = "Tools.call" -> Tools_call(rid, p)
           [] h = "Prompts.get" -> Prompts_get(rid, p)
           [] h = "Resources.read" -> Resources_read(rid, p)
           [] h \in {"Resources.complete", "Prompts.complete"} ->
                Capability_complete(h, rid, p)
           [] OTHER -> Returns(create_rpc_response(rid), {h})

\* Client.invoke
invoke(names, rid, p) ==
    LET f == Resolve(rpc_exports, names) IN
    IF f.kind = "raise" THEN Returns(Raised, {})
    ELSE IF f.kind = "func" THEN Call(f.f, rid, p)
    ELSE Returns(create_rpc_error(rid, METHOD_NOT_FOUND), {})

\* dict.pop(id, (None, None)) on the ordered table.
Pop(table, id) == SelectSeq(table, LAMBDA e : e.id # id)

Pending(table, id) == \E k \in 1..Len(table) : table[k].id = id

\* Invocations are counted up to 2 ("more than once").
Count(n) == IF n >= 2 THEN 2 ELSE n + 1

\* A pop without its default: an id that is not pending raises KeyError.
popWithoutDefault(f) ==
    IF f.id = None \/ ~Pending(response_callbacks, f.id[1])
    THEN Returns(Raised, {})
    ELSE [Returns(IF f.resultOk THEN NoReply ELSE Raised, {"on_roots_received"})
            EXCEPT !.response_callbacks = Pop(response_callbacks, f.id[1]),
                   !.invoked = [invoked EXCEPT ![f.id[1]] = Count(@)],
                   !.roots = IF f.resultOk THEN f.roots ELSE roots]

\* Client.handle_response(**request)
handle_response(f) ==
    IF f.id = None THEN Returns(Raised, {})
    ELSE IF ~Pending(response_callbacks, f.id[1]) THEN Returns(NoReply, {})
    ELSE [Returns(IF f.resultOk THEN NoReply ELSE Raised, {"on_roots_received"})
            EXCEPT !.response_callbacks = Pop(response_callbacks, f.id[1]),
                   !.invoked = [invoked EXCEPT ![f.id[1]] = Count(@)],
                   !.roots = IF f.resultOk THEN f.roots ELSE roots]

\* Client.handle_json_rpc
handle_json_rpc(f) ==
    IF f.method # <<>> THEN invoke(Split(Replace(f.method)), f.id, f.params)
    ELSE IF f.error THEN Returns(NoReply, {})
    ELSE IF f.hasResult THEN handle_response(f)
    ELSE Returns(NoReply, {})

(***************************************************************************)
(* The session.  A payload on the channel is known by the serial of its    *)
(* put; lazy payloads (the streaming response generator) have a close hook.*)
(***************************************************************************)
Payload(serial, type_, lazy, isPing) ==
    [serial |-> serial, type_ |-> type_, lazy |-> lazy, close |-> lazy,
     ping |-> isPing]

\* A put that goes to the front of the queue.
putFirst(ch, payload) == IF payload = None THEN ch ELSE <<payload[1]>> \o ch

\* Client.send: nothing is put for a None payload.
send(ch, payload) == IF payload = None THEN ch ELSE Append(ch, payload[1])

\* The payload of the frame a handler returned, None for no frame.
FramePayload(r, serial) ==
    IF r.kind \in {"none", "raise"} THEN None
    ELSE Some(Payload(serial, "message", r.kind = "stream", FALSE))

ReqOf(f) ==
    [method |-> f.method, id |-> f.id, hasResult |-> f.hasResult,
     error |-> f.error, raises |-> f.params.raises,
     refType |-> f.params.refType]

\* Client.__init__, the `endpoint` event put by the GET route, and the
\* sending task about to enter its loop.
InitSession ==
    /\ capabilities = {}
    /\ logging_level = LOGGING_LEVELS["error"]
    /\ roots = {}
    /\ channel = <<Payload(1, "endpoint", FALSE, FALSE)>>
    /\ request_id = 0
    /\ response_callbacks = <<>>
    /\ last_message_sent = 0
    /\ last_cleanup = 0
    /\ id_ = 0
    /\ data = None
    /\ kept = None
    /\ waited = FALSE
    /\ chunks = 0
    /\ reply = NoReply
    /\ req = None
    /\ ran = {}
    /\ invoked = [i \in 1..MaxRequests |-> 0]
    /\ enqueued = <<1>>
    /\ written = <<>>
    /\ closed = [i \in 1..MaxEvents |-> 0]
    /\ lifecycle = [initializes |-> 0, notified |-> FALSE]
    /\ streams = [i \in 1..MaxEvents |-> "none"]

\* MCPApp.__init__, before any connection.
InitApp ==
    /\ channels = {}
    /\ lock = None
    /\ conn = [c \in 1..MaxConns |-> "idle"]
    /\ client_capabilities = {}
    /\ response_handler = None
    /\ app_roots = {}
    /\ post = None

\* No worker is inside create_rpc_request.
IdleWorker == [pc |-> "idle", tmp |-> 0, stamp |-> 0, key |-> 0, frame |-> 0, turn |-> 0]

InitWorkers == workers = [w \in 1..MaxWorkers |-> IdleWorker]

InitCall == input = None /\ output = None /\ InitWorkers

Init == InitSession /\ InitApp /\ InitCall /\ pc = "get"

\* Positions of the sending task inside Client.start_sending_loop.
Running == {"get", "store", "send", "iter"}

loopVars ==
    <<last_message_sent, last_cleanup, pc, id_, data, waited, chunks,
      written, closed>>

\* A cleanup pass that has read the table (kept # None) sees the table
\* change under it.
Disturb(k, changed) ==
    IF k # None /\ changed THEN Some([k[1] EXCEPT !.dirty = TRUE]) ELSE k

postVars ==
    <<capabilities, logging_level, roots, request_id, reply, req, ran,
      invoked, lifecycle, streams>>

\* The POST route on a live session: the frame goes to handle_json_rpc and
\* the frame it returns is sent as a `message` event.
Post(f) ==
    /\ pc \in Running
    /\ req = None
    /\ \E out \in {handle_json_rpc(f)} :
      \E payload \in {FramePayload(out.reply, Len(enqueued) + 1)} :
       /\ out.request_id <= MaxRequests
       /\ payload # None => Len(enqueued) < MaxEvents
       /\ capabilities' = out.capabilities
       /\ logging_level' = out.logging_level
       /\ roots' = out.roots
       /\ request_id' = out.request_id
       /\ response_callbacks' = out.response_callbacks
       /\ invoked' = out.invoked
       /\ channel' = send(channel, payload)
       /\ enqueued' = IF payload = None THEN enqueued
                      ELSE Append(enqueued, Len(enqueued) + 1)
       /\ reply' = out.reply
       /\ req' = Some(ReqOf(f))
       /\ ran' = out.ran
       /\ lifecycle' =
            [initializes |->
                IF "initialize" \in out.ran /\ out.reply.kind = "result"
                THEN Count(lifecycle.initializes) ELSE lifecycle.initializes,
             notified |->
                lifecycle.notified \/ "Client.on_initialized" \in out.ran]
       /\ streams' = IF out.reply.kind = "stream"
                     THEN [streams EXCEPT ![Len(enqueued) + 1] = "open"]
                     ELSE streams
       /\ kept' = Disturb(kept, out.response_callbacks # response_callbacks)
       /\ UNCHANGED <<otherVars, loopVars>>

PostAny == \E f \in Frames : Post(f)

\* The POST route answers 202 Accepted: the worker is free for the next frame.
Accepted ==
    /\ req # None
    /\ req' = None
    /\ reply' = NoReply
    /\ ran' = {}
    /\ UNCHANGED <<capabilities, logging_level, roots, request_id, invoked,
                   lifecycle, streams, response_callbacks, channel, kept, enqueued,
                   loopVars, otherVars>>

(***************************************************************************)
(* Client.start_sending_loop and Client.cleanup, run by the sending task.  *)
(***************************************************************************)
\* itertools.dropwhile(lambda r: now > r[1][0] + CLEANUP_PERIODICITY, items)
RECURSIVE DropWhile(_)
DropWhile(table) ==
    IF table = <<>> THEN <<>>
    ELSE IF Head(table).elapsed > CLEANUP_PERIODICITY THEN DropWhile(Tail(table))
    ELSE table

\* getattr(data, 'close', lambda: None)()
Close(d) == IF d.close THEN [closed EXCEPT ![d.serial] = Count(@)] ELSE closed

\* The `finally` clause reached by `continue`: `data` is the payload of an
\* earlier iteration, or is unbound and the loop ends on UnboundLocalError.
Continue ==
    IF data = None THEN pc' = "exit" /\ closed' = closed
    ELSE pc' = "get" /\ closed' = Close(data[1])

Event(d) == [id |-> id_, serial |-> d.serial, type_ |-> d.type_, ping |-> d.ping]

\* An event id that does not advance.
SameId(i) == i

\* id_ += 1
NextId(i) == i + 1

\* channel.get returns a payload.
Get ==
    /\ pc = "get"
    /\ channel # <<>>
    /\ data' = Some(Head(channel))
    /\ channel' = Tail(channel)
    /\ pc' = "send"
    /\ waited' = FALSE
    /\ chunks' = 0
    /\ UNCHANGED <<otherVars, postVars, response_callbacks, last_message_sent, last_cleanup,
                   id_, kept, enqueued, written, closed>>

\* channel.get raises queue.Empty: cleanup puts the ping if one is due and,
\* if a drop is due, reads the table through dropwhile.
Timeout ==
    /\ pc = "get"
    /\ channel = <<>>
    /\ waited
    /\ last_message_sent > PingTimeout => Len(enqueued) < MaxEvents
    /\ waited' = FALSE
    /\ IF last_message_sent > PingTimeout
       THEN /\ channel' = send(channel, Some(Payload(Len(enqueued) + 1, "message",
                                                      FALSE, TRUE)))
            /\ enqueued' = Append(enqueued, Len(enqueued) + 1)
       ELSE UNCHANGED <<channel, enqueued>>
    /\ IF last_cleanup > CLEANUP_PERIODICITY
       THEN /\ last_cleanup' = 0
            /\ kept' = Some([table |-> DropWhile(response_callbacks),
                             read |-> Len(response_callbacks), dirty |-> FALSE])
            /\ pc' = "store"
            /\ closed' = closed
       ELSE /\ UNCHANGED <<last_cleanup, kept>>
            /\ Continue
    /\ UNCHANGED <<otherVars, postVars, response_callbacks, last_message_sent, id_, data,
                   chunks, written>>

\* cleanup stores the table it built; the loop continues.
StoreCallbacks ==
    /\ pc = "store"
    /\ response_callbacks' = kept[1].table
    /\ kept' = None
    /\ Continue
    /\ UNCHANGED <<otherVars, postVars, channel, last_message_sent, last_cleanup, id_, data,
                   waited, chunks, enqueued, written>>

\* The table changed while dropwhile was calling its predicate on an entry
\* that is not the last: the iterator raises RuntimeError, which leaves the loop.
CleanupRaises ==
    /\ pc = "store"
    /\ kept[1].dirty
    /\ kept[1].read >= 2
    /\ kept' = None
    /\ pc' = "exit"
    /\ closed' = IF data = None THEN closed ELSE Close(data[1])
    /\ UNCHANGED <<otherVars, postVars, response_callbacks, channel, last_message_sent,
                   last_cleanup, id_, data, waited, chunks, enqueued, written>>

\* send(header + data + b'\n\n') for a bytes payload, then the finally clause.
SendBytes ==
    /\ pc = "send"
    /\ ~data[1].lazy
    /\ written' = Append(written, Event(data[1]))
    /\ last_message_sent' = 0
    /\ closed' = Close(data[1])
    /\ id_' = NextId(id_)
    /\ pc' = "get"
    /\ UNCHANGED <<otherVars, postVars, response_callbacks, channel, last_cleanup, data,
                   kept, waited, chunks, enqueued>>

\* send(header) for a lazy payload.
SendHeader ==
    /\ pc = "send"
    /\ data[1].lazy
    /\ written' = Append(written, Event(data[1]))
    /\ pc' = "iter"
    /\ UNCHANGED <<otherVars, postVars, response_callbacks, channel, last_message_sent,
                   last_cleanup, id_, data, kept, waited, chunks, enqueued, closed>>

\* The payload yields a chunk, which is sent.
SendChunk ==
    /\ pc = "iter"
    /\ chunks < MaxChunks
    /\ chunks' = chunks + 1
    /\ UNCHANGED <<otherVars, postVars, response_callbacks, channel, last_message_sent,
                   last_cleanup, pc, id_, data, kept, waited, enqueued, written,
                   closed>>

\* The payload is exhausted: send(b'\n\n'), then the finally clause.
SendEnd ==
    /\ pc = "iter"
    /\ last_message_sent' = 0
    /\ closed' = Close(data[1])
    /\ id_' = NextId(id_)
    /\ pc' = "get"
    /\ UNCHANGED <<otherVars, postVars, response_callbacks, channel, last_cleanup, data,
                   kept, waited, chunks, enqueued, written>>

\* A send raises (BrokenPipeError when the client is gone): finally, then out.
SendRaises ==
    /\ pc \in {"send", "iter"}
    /\ closed' = Close(data[1])
    /\ pc' = "exit"
    /\ UNCHANGED <<otherVars, postVars, response_callbacks, channel, last_message_sent,
                   last_cleanup, id_, data, kept, waited, chunks, enqueued, written>>

\* Iterating the lazy payload raises and the loop is left at once.
IterRaisesUnclosed ==
    /\ pc = "iter"
    /\ pc' = "exit"
    /\ UNCHANGED <<otherVars, postVars, response_callbacks, channel, last_message_sent,
                   last_cleanup, id_, data, kept, waited, chunks, enqueued, written,
                   closed>>

\* Iterating the lazy payload raises: finally, then out.
IterRaises ==
    /\ pc = "iter"
    /\ closed' = Close(data[1])
    /\ pc' = "exit"
    /\ UNCHANGED <<otherVars, postVars, response_callbacks, channel, last_message_sent,
                   last_cleanup, id_, data, kept, waited, chunks, enqueued, written>>

Age(table) ==
    [k \in 1..Len(table) |->
        [table[k] EXCEPT !.elapsed = Elapse(@, CLEANUP_PERIODICITY)]]

\* One second passes while the sending task is blocked: in a send, in the
\* iteration of a lazy payload, or in channel.get on an empty queue, where
\* the wait ends after one second.
Tick ==
    /\ \/ pc \in {"send", "iter"}
       \/ pc = "get" /\ channel = <<>> /\ ~waited
    /\ last_message_sent' = Elapse(last_message_sent, PingTimeout)
    /\ last_cleanup' = Elapse(last_cleanup, CLEANUP_PERIODICITY)
    /\ response_callbacks' = Age(response_callbacks)
    /\ waited' = (pc = "get" /\ channel = <<>>)
    /\ UNCHANGED <<otherVars, postVars, channel, pc, id_, data, kept, chunks, enqueued,
                   written, closed>>

Next ==
    \/ PostAny
    \/ Accepted

Spec == Init /\ [][Next]_vars

(***************************************************************************)
(* The session with its sending task running and time passing, while POST  *)
(* workers bring requests answered with a bytes frame or a lazy stream.    *)
(***************************************************************************)
LoopFrames ==
    {[BlankFrame EXCEPT !.method = <<"ping">>, !.id = Some(1)],
     [BlankFrame EXCEPT !.method = <<"resources", "/", "read">>, !.id = Some(1),
                        !.params = NamedParams({"uri"}, TRUE, TRUE, FALSE)]}

PostLoop == \E f \in LoopFrames : Post(f)

NextLoop ==
    \/ PostLoop
    \/ Accepted
    \/ Get
    \/ Timeout
    \/ StoreCallbacks
    \/ SendBytes
    \/ SendHeader
    \/ SendChunk
    \/ SendEnd
    \/ SendRaises
    \/ IterRaises
    \/ Tick

SpecLoop == Init /\ [][NextLoop]_vars

(***************************************************************************)
(* The session with its sending task running and time passing, while POST  *)
(* workers bring the notifications that make the session issue a request   *)
(* and the client's results.                                               *)
(***************************************************************************)
CleanupFrames ==
    {[BlankFrame EXCEPT !.method = <<"notifications", "/", "roots", "/", "list_changed">>]}
    \cup {f \in ResultFrames : f.resultOk /\ f.id # None}

PostCleanup == \E f \in CleanupFrames : Post(f)

(***************************************************************************)
(* The sending task of a session whose client stays connected: no send     *)
(* raises, the task is scheduled again and again, and the payloads are     *)
(* those the handlers produce, bytes or generators.                        *)
(***************************************************************************)
NextDeliver ==
    \/ PostLoop
    \/ Accepted
    \/ Get
    \/ Timeout
    \/ StoreCallbacks
    \/ SendBytes
    \/ SendHeader
    \/ SendChunk
    \/ SendEnd
    \/ IterRaises
    \/ Tick

SpecDeliver ==
    /\ Init
    /\ [][NextDeliver]_vars
    /\ WF_vars(Get)
    /\ WF_vars(Timeout)
    /\ WF_vars(StoreCallbacks)
    /\ WF_vars(SendBytes)
    /\ WF_vars(SendHeader)
    /\ WF_vars(SendEnd)
    /\ WF_vars(Tick)

NextCleanup ==
    \/ PostCleanup
    \/ Accepted
    \/ Get
    \/ Timeout
    \/ StoreCallbacks
    \/ CleanupRaises
    \/ SendBytes
    \/ SendRaises
    \/ Tick

SpecCleanup == Init /\ [][NextCleanup]_vars

(***************************************************************************)
(* The same session while its client stays connected: no send raises,      *)
(* every send completes, time passes and the sending task keeps running.   *)
(* POST workers come and go as they please.                                *)
(***************************************************************************)
NextLive ==
    \/ PostCleanup
    \/ Accepted
    \/ Get
    \/ Timeout
    \/ StoreCallbacks
    \/ CleanupRaises
    \/ SendBytes
    \/ Tick

SpecLive ==
    /\ Init
    /\ [][NextLive]_vars
    /\ WF_vars(Get)
    /\ WF_vars(Timeout)
    /\ WF_vars(StoreCallbacks)
    /\ WF_vars(SendBytes)
    /\ WF_vars(Tick)

(***************************************************************************)
(* The SSE route of MCPApp (application.py): the channel is a queue of the *)
(* application, a queue timeout writes a ping that was never enqueued, and *)
(* the close hook is called only after a complete write.                   *)
(***************************************************************************)
sessionVars ==
    <<capabilities, logging_level, roots, request_id, response_callbacks,
      last_message_sent, last_cleanup, kept, waited, reply, req, ran, invoked,
      lifecycle, streams>>

\* MCPApp.send_data, called by a handler a POST worker runs
\* (send_json puts bytes, stream_json an iterator).
send_data(lazy) ==
    /\ pc \in {"app_get", "app_send", "app_iter"}
    /\ Len(enqueued) < MaxEvents
    /\ channel' = send(channel, Some(Payload(Len(enqueued) + 1, "message", lazy,
                                             FALSE)))
    /\ enqueued' = Append(enqueued, Len(enqueued) + 1)
    /\ UNCHANGED <<otherVars, sessionVars, pc, id_, data, chunks, written, closed>>

AppSendData == \E lazy \in BOOLEAN : send_data(lazy)

\* channel.get(timeout=self.ping_timeout) returns a payload.
AppGet ==
    /\ pc = "app_get"
    /\ channel # <<>>
    /\ data' = Some(Head(channel))
    /\ channel' = Tail(channel)
    /\ chunks' = 0
    /\ pc' = "app_send"
    /\ UNCHANGED <<otherVars, sessionVars, id_, enqueued, written, closed>>

\* channel.get raises queue.Empty: the data to write is a ping.
AppPing ==
    /\ pc = "app_get"
    /\ channel = <<>>
    /\ Len(written) < MaxEvents
    /\ data' = Some(Payload(0, "message", FALSE, TRUE))
    /\ chunks' = 0
    /\ pc' = "app_send"
    /\ UNCHANGED <<otherVars, sessionVars, channel, id_, enqueued, written, closed>>

AppSendBytes ==
    /\ pc = "app_send"
    /\ ~data[1].lazy
    /\ written' = Append(written, Event(data[1]))
    /\ id_' = NextId(id_)
    /\ pc' = "app_get"
    /\ UNCHANGED <<otherVars, sessionVars, channel, data, chunks, enqueued, closed>>

AppSendHeader ==
    /\ pc = "app_send"
    /\ data[1].lazy
    /\ written' = Append(written, Event(data[1]))
    /\ pc' = "app_iter"
    /\ UNCHANGED <<otherVars, sessionVars, channel, id_, data, chunks, enqueued, closed>>

AppSendChunk ==
    /\ pc = "app_iter"
    /\ chunks < MaxChunks
    /\ chunks' = chunks + 1
    /\ UNCHANGED <<otherVars, sessionVars, channel, pc, id_, data, enqueued, written, closed>>

\* send(b'\n\n'), then the close hook.
AppSendEnd ==
    /\ pc = "app_iter"
    /\ closed' = Close(data[1])
    /\ id_' = NextId(id_)
    /\ pc' = "app_get"
    /\ UNCHANGED <<otherVars, sessionVars, channel, data, chunks, enqueued, written>>

\* BrokenPipeError or another exception while sending or iterating:
\* delete_channel, then the loop is left.
AppRaises ==
    /\ pc \in {"app_send", "app_iter"}
    /\ pc' = "app_exit"
    /\ UNCHANGED <<otherVars, sessionVars, channel, id_, data, chunks, enqueued, written,
                   closed>>

NextApp ==
    \/ AppSendData
    \/ AppGet
    \/ AppPing
    \/ AppSendBytes
    \/ AppSendHeader
    \/ AppSendChunk
    \/ AppSendEnd
    \/ AppRaises

(***************************************************************************)
(* Both sending loops: a session is served by Client.start_sending_loop or *)
(* by the SSE route of MCPApp.                                             *)
(***************************************************************************)
InitRoutes == InitSession /\ InitApp /\ InitCall /\ pc \in {"get", "app_get"}

NextRoutes ==
    \/ NextLoop
    \/ NextApp

SpecRoutes == InitRoutes /\ [][NextRoutes]_vars

(***************************************************************************)
(* MCPApp as a whole (application.py): the map of channels shared by all   *)
(* connections, each GET connection running the SSE route, and the POST    *)
(* route.  A channel id is the number of the connection that created it    *)
(* (uuid4 values are distinct).                                            *)
(***************************************************************************)
Conns == 1..MaxConns

\* Everything but the application-wide state.
clientVars ==
    <<sessionVars, channel, pc, id_, data, chunks, enqueued, written, closed,
      callVars>>

\* `self.channels.clear()` in place of the pop.
clearChannels(chs, channel_id) == {}

\* MCPApp.create_channel, inside the lock: self.channels[channel_id] = Queue()
create_channel(chs, channel_id) == chs \cup {channel_id}

\* MCPApp.delete_channel, inside the lock: self.channels.pop(channel_id, None)
delete_channel(chs, channel_id) == chs \ {channel_id}

\* GET: create_channel takes the lock.
CreateLock(c) ==
    /\ conn[c] = "idle"
    /\ lock = None
    /\ lock' = Some(c)
    /\ conn' = [conn EXCEPT ![c] = "create"]
    /\ UNCHANGED <<channels, client_capabilities, response_handler, app_roots,
                   post, clientVars>>

\* The channel is stored and the lock released.
CreateChannel(c) ==
    /\ conn[c] = "create"
    /\ channels' = create_channel(channels, c)
    /\ lock' = None
    /\ conn' = [conn EXCEPT ![c] = "created"]
    /\ UNCHANGED <<client_capabilities, response_handler, app_roots, post,
                   clientVars>>

\* The `endpoint` event is put on the channel, start_response is called and
\* the loop is entered.
StartLoop(c) ==
    /\ conn[c] = "created"
    /\ c \in channels
    /\ conn' = [conn EXCEPT ![c] = "loop"]
    /\ UNCHANGED <<channels, lock, client_capabilities, response_handler,
                   app_roots, post, clientVars>>

\* A write of the loop raises: BrokenPipeError ("pipe") or another
\* exception ("error").  Both handlers call delete_channel first.
WriteRaises(c, e) ==
    /\ conn[c] = "loop"
    /\ conn' = [conn EXCEPT ![c] = e]
    /\ UNCHANGED <<channels, lock, client_capabilities, response_handler,
                   app_roots, post, clientVars>>

\* delete_channel takes the lock.
DeleteLock(c) ==
    /\ conn[c] \in {"pipe", "error"}
    /\ lock = None
    /\ lock' = Some(c)
    /\ conn' = [conn EXCEPT ![c] = IF @ = "pipe" THEN "pipe_locked"
                                   ELSE "error_locked"]
    /\ UNCHANGED <<channels, client_capabilities, response_handler, app_roots,
                   post, clientVars>>

\* The channel is popped and the lock released; then `break` leaves the loop
\* and the route returns, or `raise` leaves it with the exception.
DeleteChannel(c) ==
    /\ conn[c] \in {"pipe_locked", "error_locked"}
    /\ channels' = delete_channel(channels, c)
    /\ lock' = None
    /\ conn' = [conn EXCEPT ![c] = IF @ = "pipe_locked" THEN "returned"
                                   ELSE "raised"]
    /\ UNCHANGED <<client_capabilities, response_handler, app_roots, post,
                   clientVars>>

\* Positions of a connection between create_channel and delete_channel.
Connected ==
    {"created", "loop", "pipe", "error", "pipe_locked", "error_locked"}

\* self.rpc_exports of MCPApp: the capabilities' tables and its own entries.
MCPAppExports ==
    DictUnion(
        Under("tools", ToolsExports) \cup Under("resources", ResourcesExports)
            \cup Under("prompts", PromptsExports),
        {[path |-> <<"initialize">>, f |-> "MCPApp.initialize"],
         [path |-> <<"notifications", "initialized">>,
          f |-> "MCPApp.on_initialized"],
         [path |-> <<"notifications", "roots", "list_changed">>,
          f |-> "MCPApp.on_roots_changed"],
         [path |-> <<"ping">>, f |-> "MCPApp.ping"],
         [path |-> <<"completion", "complete">>, f |-> "MCPApp.complete"]})

\* What a POST has done so far: the status it set (None: left to the
\* framework), whether an exception left the route, the handlers run, whether
\* a payload was put on the channel, and the fields of the application.
Posted ==
    [status |-> None, raised |-> FALSE, ran |-> {}, put |-> FALSE,
     client_capabilities |-> client_capabilities,
     response_handler |-> response_handler, app_roots |-> app_roots]

\* MCPApp.send_data: self.channels[channel_id].put(...), KeyError if absent.
App_send_data(channel_id, o) ==
    IF channel_id \in channels THEN [o EXCEPT !.put = TRUE]
    ELSE [o EXCEPT !.raised = TRUE]

\* MCPApp.send_json
App_send_json(channel_id, o) == App_send_data(channel_id, o)

\* MCPApp.list_roots
App_list_roots(channel_id, o) ==
    App_send_data(channel_id,
                  [o EXCEPT !.response_handler = Some("on_roots_received")])

\* MCPApp.initialize
App_initialize(channel_id, f, o) ==
    App_send_json(channel_id,
                  [o EXCEPT !.client_capabilities = f.capabilities,
                            !.ran = @ \cup {"MCPApp.initialize"}])

\* MCPApp.on_initialized
App_on_initialized(channel_id, o) ==
    LET o1 == [o EXCEPT !.ran = @ \cup {"MCPApp.on_initialized"}] IN
    IF "roots" \in o.client_capabilities THEN App_list_roots(channel_id, o1)
    ELSE o1

\* MCPApp.on_roots_changed
App_on_roots_changed(channel_id, o) ==
    App_list_roots(channel_id,
                   [o EXCEPT !.ran = @ \cup {"MCPApp.on_roots_changed"}])

\* MCPApp.ping
App_ping(channel_id, o) ==
    App_send_json(channel_id, [o EXCEPT !.ran = @ \cup {"MCPApp.ping"}])

\* MCPApp.on_roots_received
App_on_roots_received(f, o) ==
    [o EXCEPT !.app_roots = f.roots, !.ran = @ \cup {"on_roots_received"}]

\* MCPApp.invoke: a name that resolves to no callable is dropped silently.
App_invoke(names, channel_id, f, o) ==
    LET h == Resolve(MCPAppExports, names) IN
    IF h.kind = "raise" THEN [o EXCEPT !.raised = TRUE]
    ELSE IF h.kind # "func" THEN o
    ELSE CASE h.f = "MCPApp.initialize" -> App_initialize(channel_id, f, o)
           [] h.f = "MCPApp.on_initialized" -> App_on_initialized(channel_id, o)
           [] h.f = "MCPApp.on_roots_changed" ->
                App_on_roots_changed(channel_id, o)
           [] h.f = "MCPApp.ping" -> App_ping(channel_id, o)
           [] OTHER -> [o EXCEPT !.ran = @ \cup {h.f}]

\* The POST route of MCPApp (handle_json_rpc in application.py).  The status
\* is set to 202 in the method branch only, after invoke has returned.
App_handle_json_rpc(channel_id, f) ==
    IF f.kind = "error" THEN Posted
    ELSE IF f.kind = "result" THEN
        IF response_handler = None THEN [Posted EXCEPT !.raised = TRUE]
        ELSE App_on_roots_received(f, Posted)
    ELSE LET o == App_invoke(Split(Replace(f.method)), channel_id, f, Posted) IN
         IF o.raised THEN o ELSE [o EXCEPT !.status = Some(202)]

AppFrame(kind, method, caps, rts) ==
    [kind |-> kind, method |-> method, capabilities |-> caps, roots |-> rts]

\* Frames POSTed to the application: an error, a result, and method frames
\* for its own entries, for an unknown name and for a path through `ping`.
AppFrames ==
    {AppFrame("error", <<>>, {}, {}), AppFrame("result", <<>>, {}, {"r"})}
      \cup {AppFrame("method", m, {}, {}) :
              m \in {<<"ping">>, <<"notifications", "/", "initialized">>,
                     <<"notifications", "/", "roots", "/", "list_changed">>,
                     <<"nosuch">>, <<"ping", "/", "x">>}}
      \cup {AppFrame("method", <<"initialize">>, caps, {}) :
              caps \in {{}, {"roots"}}}

\* A POST to /<channel_id>, for any id the route pattern accepts, whether or
\* not a channel of that id is in the map.
AppPost(c, f) ==
    /\ post = None
    /\ \E o \in {App_handle_json_rpc(c, f)} :
        /\ post' = Some([channel_id |-> c, known |-> c \in channels,
                         kind |-> f.kind, status |-> o.status,
                         raised |-> o.raised, ran |-> o.ran, put |-> o.put])
        /\ client_capabilities' = o.client_capabilities
        /\ response_handler' = o.response_handler
        /\ app_roots' = o.app_roots
        /\ UNCHANGED <<channels, lock, conn, clientVars>>

\* The route returns '' (or the exception reaches the framework) and the
\* response goes out.
AppRespond ==
    /\ post # None
    /\ post' = None
    /\ UNCHANGED <<channels, lock, conn, client_capabilities, response_handler,
                   app_roots, clientVars>>

NextChannels ==
    \/ \E c \in Conns : CreateLock(c)
    \/ \E c \in Conns : CreateChannel(c)
    \/ \E c \in Conns : StartLoop(c)
    \/ \E c \in Conns : \E e \in {"pipe", "error"} : WriteRaises(c, e)
    \/ \E c \in Conns : DeleteLock(c)
    \/ \E c \in Conns : DeleteChannel(c)
    \/ \E c \in Conns : \E f \in AppFrames : AppPost(c, f)
    \/ AppRespond

SpecChannels == Init /\ [][NextChannels]_vars

(***************************************************************************)
(* MCPApp with several sessions connected.  `output` keeps, for each       *)
(* session, the fields of the application as the last POST to that session *)
(* left them (those of MCPApp.__init__ before its first POST).             *)
(***************************************************************************)
Fields(caps, handler, rts, posted) ==
    [client_capabilities |-> caps, response_handler |-> handler,
     app_roots |-> rts, posted |-> posted]

InitSessions ==
    /\ InitSession
    /\ InitApp
    /\ InitWorkers
    /\ pc = "get"
    /\ input = None
    /\ output = Some([seen |-> [c \in Conns |-> Fields({}, None, {}, FALSE)]])

\* The POST route for a frame of a connected client, which posts to the
\* endpoint its `endpoint` event named; the fields the route leaves are
\* recorded for the session.
SessionPost(c, f) ==
    /\ post = None
    /\ c \in channels
    /\ \E o \in {App_handle_json_rpc(c, f)} :
        /\ post' = Some([channel_id |-> c, known |-> c \in channels,
                         kind |-> f.kind, status |-> o.status,
                         raised |-> o.raised, ran |-> o.ran, put |-> o.put])
        /\ client_capabilities' = o.client_capabilities
        /\ response_handler' = o.response_handler
        /\ app_roots' = o.app_roots
        /\ output' = Some([seen |->
                [output[1].seen EXCEPT ![c] =
                    Fields(o.client_capabilities, o.response_handler,
                           o.app_roots, TRUE)]])
    /\ UNCHANGED <<channels, lock, conn, input, workers, sessionVars, channel,
                   pc, id_, data, chunks, enqueued, written, closed>>

NextSessions ==
    \/ \E c \in Conns : CreateLock(c)
    \/ \E c \in Conns : CreateChannel(c)
    \/ \E c \in Conns : StartLoop(c)
    \/ \E c \in Conns : \E f \in AppFrames : SessionPost(c, f)
    \/ AppRespond

SpecSessions == InitSessions /\ [][NextSessions]_vars

(***************************************************************************)
(* Tools (tools.py) and the prototypes of prototypes.py.  A Python value   *)
(* a handler returns is a record: t is its type ("none", "str", "int",     *)
(* "dict", "list", "tuple", or "text"/"image" for a ToolResult of that     *)
(* type), v is the text of a str or ToolResult and the JSON text of an int *)
(* or dict, items are the elements of a list or tuple.                     *)
(***************************************************************************)
Val(t, v, items) == [t |-> t, v |-> v, items |-> items]

PyNone == Val("none", "", <<>>)

\* Sequences of at most n elements of S.
SeqUpTo(S, n) == UNION {[1..k -> S] : k \in 0..n}

\* Values without elements, tuples of leaves, and lists of both.
Atoms ==
    {PyNone, Val("str", "hello", <<>>), Val("int", "42", <<>>),
     Val("dict", "{}", <<>>), Val("image", "data", <<>>)}

Tuples ==
    {Val("tuple", "", s) :
        s \in SeqUpTo({Val("str", "world", <<>>), Val("image", "data", <<>>)},
                      MaxItems)}

Values ==
    Atoms \cup {Val("list", "", s) : s \in SeqUpTo(Atoms \cup Tuples, MaxItems)}

\* ToolText(text): ToolResult(type='text', text=str(text))
ToolText(text) == Val("text", text, <<>>)

\* isinstance(x, ToolResult)
IsToolResult(x) == x.t \in {"text", "image"}

\* pydantic_core.to_json(result, fallback=str, indent=2).decode()
to_json(result) == Val("str", result.v, <<>>)

\* chain(*lists), taken from the last list to the first.
RECURSIVE chainBackwards(_)
chainBackwards(lists) ==
    IF lists = <<>> THEN <<>>
    ELSE chainBackwards(Tail(lists)) \o Head(lists)

\* list(chain(*lists))
RECURSIVE chain(_)
chain(lists) ==
    IF lists = <<>> THEN <<>> ELSE Head(lists) \o chain(Tail(lists))

\* Tools.to_content
RECURSIVE to_content(_)
to_content(result) ==
    IF result.t = "none" THEN <<>>
    ELSE LET r1 == IF ~(result.t = "str" \/ IsToolResult(result)
                          \/ result.t \in {"list", "tuple"})
                   THEN to_json(result) ELSE result
             r2 == IF r1.t = "str" THEN ToolText(r1.v) ELSE r1
         IN IF r2.t \in {"list", "tuple"}
            THEN chain([i \in 1..Len(r2.items) |-> to_content(r2.items[i])])
            ELSE <<r2>>

\* A tool error without its text item.
emptyToolError(msg) ==
    [isError |-> TRUE, content |-> <<>>, structuredContent |-> None]

\* Tools.create_tool_error
create_tool_error(msg) ==
    [isError |-> TRUE, content |-> <<ToolText(msg)>>, structuredContent |-> None]

\* pydantic_core.to_jsonable_python: a tuple becomes a list and a ToolResult,
\* a dict subclass, a plain dict.
RECURSIVE to_jsonable_python(_)
to_jsonable_python(x) ==
    IF x.t \in {"list", "tuple"}
    THEN Val("list", "", [i \in 1..Len(x.items) |-> to_jsonable_python(x.items[i])])
    ELSE IF IsToolResult(x) THEN Val("dict", x.v, <<>>)
    ELSE x

\* Tools.create_tool_response: structuredContent is {'result': value} when
\* `wrapped`, the value itself otherwise.
create_tool_response(with_structured_content, result) ==
    LET content == to_content(result)
        structured_content == to_jsonable_python(result)
    IN [isError |-> FALSE,
        content |-> content,
        structuredContent |->
            IF content # <<>> /\ with_structured_content
            THEN Some([wrapped |-> structured_content.t # "dict",
                       value |-> structured_content])
            ELSE None]

\* inputSchema of the registered tool: def tool(a, b=0).
ToolSchema == [properties |-> {"a", "b"}, required |-> {"a"}]

\* jsonschema_to_proto: a function whose keyword-only parameters are the
\* properties, those not required having a default.
jsonschema_to_proto(schema) ==
    [kwonlyargs |-> schema.properties,
     kwonlydefaults |-> schema.properties \ schema.required]

\* A prototype that takes any keywords.
acceptsAll(proto, arguments) == TRUE

\* proto(**arguments) returns (TRUE) or raises TypeError (FALSE).
proto_call(proto, arguments) ==
    /\ arguments \subseteq proto.kwonlyargs
    /\ (proto.kwonlyargs \ proto.kwonlydefaults) \subseteq arguments

\* The Tools registry after register(tool): name -> (proto, ...).
Registered == {"tool"}

ToolOut(r, response, called) ==
    [reply |-> r, response |-> response, called |-> called]

\* Tools.call.  `c` holds the request (id, name, arguments), whether the
\* schema of the tool has an outputSchema, and what the handler does.
call(c) ==
    IF c.name \notin Registered
    THEN ToolOut(create_rpc_error(c.id, METHOD_NOT_FOUND), None, FALSE)
    ELSE IF ~proto_call(jsonschema_to_proto(ToolSchema), c.arguments)
    THEN ToolOut(create_rpc_error(c.id, INVALID_PARAMS), None, FALSE)
    ELSE IF c.raises
    THEN ToolOut(create_rpc_response(c.id), Some(create_tool_error(c.msg)), TRUE)
    ELSE ToolOut(create_rpc_response(c.id),
                 Some(create_tool_response(c.with_structured_content, c.value)),
                 TRUE)

ToolCalls ==
    [id : ClientIds,
     name : {"tool", "nosuch"},
     arguments : {{}, {"a"}, {"a", "b"}, {"a", "c"}},
     with_structured_content : BOOLEAN,
     raises : BOOLEAN,
     msg : {"boom"},
     value : Values]

InitTools ==
    /\ InitSession /\ InitApp /\ InitWorkers /\ pc = "get"
    /\ input \in {Some(c) : c \in ToolCalls}
    /\ output = None

\* tools/call reaches Tools.call.
ToolsCall ==
    /\ input # None
    /\ output = None
    /\ output' = Some(call(input[1]))
    /\ UNCHANGED <<input, workers, appVars, sessionVars, channel, pc, id_, data, chunks,
                   enqueued, written, closed>>

SpecTools == InitTools /\ [][ToolsCall]_vars

(***************************************************************************)
(* Resources (resources.py).  A URI or URI template is the sequence of its *)
(* tokens: a character, or a placeholder such as "{x}".  A regular         *)
(* expression is a sequence of characters and named groups.                *)
(***************************************************************************)
\* The named group re.sub puts for a placeholder, and the name it captures.
Groups == [p \in {"{x}", "{y}"} |-> IF p = "{x}" THEN "(?P<x>.+?)" ELSE "(?P<y>.+?)"]
GroupName == [g \in {"(?P<x>.+?)", "(?P<y>.+?)"} |-> IF g = "(?P<x>.+?)" THEN "x" ELSE "y"]

\* re.sub('{(.+?)}', r'(?P<\1>.+?)', uri)
Sub(uri) ==
    [i \in 1..Len(uri) |-> IF uri[i] \in DOMAIN Groups THEN Groups[uri[i]] ELSE uri[i]]

\* regexp.match(s): the pattern has only to match a prefix of s.
RECURSIVE match(_, _)
match(regexp, s) ==
    IF regexp = <<>> THEN Some({})
    ELSE IF Head(regexp) \in DOMAIN GroupName THEN
        LET ks == {k \in 1..Len(s) :
                     match(Tail(regexp), SubSeq(s, k + 1, Len(s))) # None}
            k == CHOOSE j \in ks : \A i \in ks : j <= i
        IN IF ks = {} THEN None
           ELSE Some(match(Tail(regexp), SubSeq(s, k + 1, Len(s)))[1]
                       \cup {[name |-> GroupName[Head(regexp)],
                              value |-> SubSeq(s, 1, k)]})
    ELSE IF s # <<>> /\ Head(s) = Head(regexp) THEN match(Tail(regexp), Tail(s))
    ELSE None

\* regexp.fullmatch(s): None, or Some(groupdict) with each lazy group `.+?`
\* taking the fewest characters that let the rest match.
RECURSIVE fullmatch(_, _)
fullmatch(regexp, s) ==
    IF regexp = <<>> THEN (IF s = <<>> THEN Some({}) ELSE None)
    ELSE IF Head(regexp) \in DOMAIN GroupName THEN
        LET ks == {k \in 1..Len(s) :
                     fullmatch(Tail(regexp), SubSeq(s, k + 1, Len(s))) # None}
            k == CHOOSE j \in ks : \A i \in ks : j <= i
        IN IF ks = {} THEN None
           ELSE Some(fullmatch(Tail(regexp), SubSeq(s, k + 1, Len(s)))[1]
                       \cup {[name |-> GroupName[Head(regexp)],
                              value |-> SubSeq(s, 1, k)]})
    ELSE IF s # <<>> /\ Head(s) = Head(regexp)
    THEN fullmatch(Tail(regexp), Tail(s))
    ELSE None

\* Resources.register: concrete_resources is a dict, template_resources an
\* ordered dict whose keys keep the place of their first insertion.
register(reg, f, uri) ==
    LET regexp == Sub(uri) IN
    IF regexp = uri
    THEN [reg EXCEPT !.concrete_resources =
            {e \in @ : e.uri # uri} \cup {[uri |-> uri, f |-> f]}]
    ELSE LET t == [uri |-> uri, regexp |-> regexp, f |-> f]
             old == reg.template_resources
         IN [reg EXCEPT !.template_resources =
                IF \E i \in 1..Len(old) : old[i].uri = uri
                THEN [i \in 1..Len(old) |-> IF old[i].uri = uri THEN t ELSE old[i]]
                ELSE Append(old, t)]

\* The registry after registering handler k under uris[k], for each k in turn.
RECURSIVE Registry(_)
Registry(uris) ==
    IF uris = <<>> THEN [concrete_resources |-> {}, template_resources |-> <<>>]
    ELSE register(Registry(SubSeq(uris, 1, Len(uris) - 1)), Len(uris),
                  uris[Len(uris)])

\* `streams` are the URIs of the tuples handed to the streaming response,
\* one for the stream the handler returned.
ReadOut(r, called) ==
    [reply |-> r, called |-> called,
     streams |-> IF r.kind = "stream" THEN <<called[1].uri>> ELSE <<>>]

\* The for loop of Resources.read from template k on: the first full match.
RECURSIVE Scan(_, _, _)
Scan(templates, k, uri) ==
    IF k > Len(templates) THEN None
    ELSE LET m == fullmatch(templates[k].regexp, uri) IN
         IF m # None
         THEN Some([f |-> templates[k].f, uri |-> templates[k].uri, params |-> m[1]])
         ELSE Scan(templates, k + 1, uri)

\* Resources.read: `called` is the handler called, with its uri and keywords.
read(reg, c) ==
    LET found == {e \in reg.concrete_resources : e.uri = c.uri}
        target == IF found # {}
                  THEN Some([f |-> (CHOOSE e \in found : TRUE).f, uri |-> c.uri,
                             params |-> {}])
                  ELSE Scan(reg.template_resources, 1, c.uri)
    IN IF target = None
       THEN ReadOut(create_rpc_error(c.id, INVALID_PARAMS), None)
       ELSE IF c.raises
       THEN ReadOut(create_rpc_error(c.id, INTERNAL_ERROR), target)
       ELSE ReadOut(create_rpc_streaming_response(c.id), target)

\* URIs and templates that can be registered, and the URIs that are read.
Registrable ==
    {<<"a">>, <<"a", "/", "b">>, <<"a", "/", "{x}">>, <<"{x}", "/", "{y}">>,
     <<"{x}">>}

Uris == SeqUpTo({"a", "b", "/"}, MaxUri) \ {<<>>}

ResourceReads ==
    [id : ClientIds,
     uri : Uris,
     raises : BOOLEAN,
     registered :
        {s \in SeqUpTo(Registrable, MaxRegistered) :
            \A i, j \in 1..Len(s) : i # j => s[i] # s[j]}]

InitResources ==
    /\ InitSession /\ InitApp /\ InitWorkers /\ pc = "get"
    /\ input \in {Some(c) : c \in ResourceReads}
    /\ output = None

\* resources/read reaches Resources.read.
ResourcesRead ==
    /\ input # None
    /\ output = None
    /\ output' = Some(read(Registry(input[1].registered), input[1]))
    /\ UNCHANGED <<input, workers, appVars, sessionVars, channel, pc, id_, data, chunks,
                   enqueued, written, closed>>

SpecResources == InitResources /\ [][ResourcesRead]_vars

(***************************************************************************)
(* The streaming encoder (Client.create_rpc_streaming_response, and the    *)
(* same code in MCPApp.generate_iterator).  Text is a sequence of tokens:  *)
(* the quote, the backslash, a punctuation mark of JSON, or a run of other *)
(* characters; blanks are left out.  A byte is a number in 0..255.         *)
(***************************************************************************)
B64 ==
    <<"A", "B", "C", "D", "E", "F", "G", "H", "I", "J", "K", "L", "M", "N", "O",
      "P", "Q", "R", "S", "T", "U", "V", "W", "X", "Y", "Z", "a", "b", "c", "d",
      "e", "f", "g", "h", "i", "j", "k", "l", "m", "n", "o", "p", "q", "r", "s",
      "t", "u", "v", "w", "x", "y", "z", "0", "1", "2", "3", "4", "5", "6", "7",
      "8", "9", "+", "/">>

\* base64.b64encode
RECURSIVE b64encode(_)
b64encode(s) ==
    IF s = <<>> THEN <<>>
    ELSE IF Len(s) = 1
    THEN <<B64[(s[1] \div 4) + 1], B64[((s[1] % 4) * 16) + 1], "=", "=">>
    ELSE IF Len(s) = 2
    THEN <<B64[(s[1] \div 4) + 1],
           B64[((s[1] % 4) * 16) + (s[2] \div 16) + 1],
           B64[((s[2] % 16) * 4) + 1], "=">>
    ELSE <<B64[(s[1] \div 4) + 1],
           B64[((s[1] % 4) * 16) + (s[2] \div 16) + 1],
           B64[((s[2] % 16) * 4) + (s[3] \div 64) + 1],
           B64[(s[3] % 64) + 1]>> \o b64encode(SubSeq(s, 4, Len(s)))

\* json.dumps(chunk)[1:-1]: the quote and the backslash are escaped.
RECURSIVE dumps_body(_)
dumps_body(chunk) ==
    IF chunk = <<>> THEN <<>>
    ELSE (IF Head(chunk) \in {"\"", "\\"} THEN <<"\\", Head(chunk)>>
          ELSE <<Head(chunk)>>) \o dumps_body(Tail(chunk))

\* json.dumps(response_id)
dumps_id(response_id) == IF response_id = None THEN <<"null">> ELSE <<"1">>

\* Reads that return one item each, whatever chunk_size is.
read_one(stream, chunk_size) == [k \in 1..Len(stream) |-> <<stream[k]>>]

\* iter(partial(stream.read, chunk_size), sentinel): reads of chunk_size items
\* until the stream is at its end.
RECURSIVE iter_read(_, _)
iter_read(stream, chunk_size) ==
    IF stream = <<>> THEN <<>>
    ELSE IF Len(stream) <= chunk_size THEN <<stream>>
    ELSE <<SubSeq(stream, 1, chunk_size)>>
            \o iter_read(SubSeq(stream, chunk_size + 1, Len(stream)), chunk_size)

\* A literal "..." of the source.
Quoted(text) == <<"\"", text, "\"">>

\* A test that takes every stream for text.
neverBinary(mime_type) == FALSE

\* not mime_type.startswith('text/')
is_binary_stream(mime_type) == Head(mime_type) # "text/"

\* What the generator yields for one (uri, mime_type, stream) after `sep`.
EncodeStream(sep, t, chunk_size) ==
    [open |-> sep \o <<"{">> \o Quoted("uri") \o <<":", "\"">> \o t.uri
                \o <<"\"", ",">> \o Quoted("mimeType") \o <<":", "\"">>
                \o t.mime_type \o <<"\"", ",">>
                \o Quoted(IF is_binary_stream(t.mime_type) THEN "blob" ELSE "text")
                \o <<":", "\"">>,
     chunks |-> IF is_binary_stream(t.mime_type)
                THEN LET r == iter_read(t.bytes, chunk_size)
                     IN [k \in 1..Len(r) |-> b64encode(r[k])]
                ELSE LET r == iter_read(t.text, chunk_size)
                     IN [k \in 1..Len(r) |-> dumps_body(r[k])],
     close |-> <<"\"", "}">>]

\* Client.create_rpc_streaming_response / MCPApp.generate_iterator: all that
\* the generator yields, in order.
generate_iterator(response_id, triples, chunk_size) ==
    [head |-> <<"{">> \o Quoted("jsonrpc") \o <<":">> \o Quoted("2.0") \o <<",">>
                \o Quoted("id") \o <<":">> \o dumps_id(response_id) \o <<",">>
                \o Quoted("result") \o <<":", "{">> \o Quoted("contents")
                \o <<":", "[">>,
     streams |-> [k \in 1..Len(triples) |->
                    EncodeStream(IF k = 1 THEN <<>> ELSE <<",">>, triples[k],
                                 chunk_size)],
     tail |-> <<"]", "}", "}">>]

Triple(uri, mime_type, text, bytes) ==
    [uri |-> uri, mime_type |-> mime_type, text |-> text, bytes |-> bytes]

\* Streams of text and of bytes, under plain URIs and URIs with a quote.
Triples ==
    {Triple(u, <<"text/", "plain">>, s, <<>>) :
        u \in {<<"a">>, <<"a", "\"">>}, s \in SeqUpTo({"a", "\""}, MaxBytes)}
    \cup {Triple(u, <<"image/", "png">>, <<>>, s) :
        u \in {<<"a">>, <<"a", "\"">>}, s \in SeqUpTo({0, 255}, MaxBytes)}

Encodings ==
    [id : ClientIds,
     chunk_size : 1..MaxChunkSize,
     streams : SeqUpTo(Triples, 1)
                \cup {<<t, u>> : t, u \in {x \in Triples : Len(x.text) + Len(x.bytes) = 1}}]

InitEncoder ==
    /\ InitSession /\ InitApp /\ InitWorkers /\ pc = "get"
    /\ input \in {Some(c) : c \in Encodings}
    /\ output = None

\* The sending loop iterates the generator to its end.
Encode ==
    /\ input # None
    /\ output = None
    /\ output' = Some(generate_iterator(input[1].id, input[1].streams,
                                        input[1].chunk_size))
    /\ UNCHANGED <<input, workers, appVars, sessionVars, channel, pc, id_, data, chunks,
                   enqueued, written, closed>>

SpecEncoder == InitEncoder /\ [][Encode]_vars

(***************************************************************************)
(* The same generator, one next() at a time.  `output` holds where the     *)
(* generator stands: the triple it is at, how much of that stream was read *)
(* and the events so far, a read of a stream or a chunk that was yielded.  *)
(***************************************************************************)
Yield(part, k, chunk) == [kind |-> "yield", part |-> part, k |-> k, data |-> chunk]
Read(k, n) == [kind |-> "read", part |-> "", k |-> k, data |-> [i \in 1..n |-> "."]]

Items(t) == IF is_binary_stream(t.mime_type) THEN t.bytes ELSE t.text

Streamings ==
    LET few == {Triple(<<"a">>, <<"text/", "plain">>, d, <<>>) :
                    d \in SeqUpTo({"a", "\""}, 2)}
               \cup {Triple(<<"a">>, m, <<>>, d) :
                    m \in {<<"image/", "png">>, <<"application/", "text/">>},
                    d \in SeqUpTo({0, 255}, 2)}
    IN [id : ClientIds, chunk_size : 1..2, streams : SeqUpTo(few, 2)]

InitStream ==
    /\ InitSession /\ InitApp /\ InitWorkers /\ pc = "get"
    /\ input \in {Some(c) : c \in Streamings}
    /\ output = None

\* The first next(): the prefix with the id.
GenPrefix ==
    /\ input # None
    /\ output = None
    /\ output' =
        Some([phase |-> IF input[1].streams = <<>> THEN "end" ELSE "open",
              k |-> 1, at |-> 0,
              events |-> <<Yield("prefix", 0,
                                 generate_iterator(input[1].id, <<>>, 1).head)>>])
    /\ UNCHANGED <<input, workers, appVars, sessionVars, channel, pc, id_, data,
                   chunks, enqueued, written, closed>>

\* The header of the next triple, after `sep`.
GenHeader ==
    /\ output # None
    /\ output[1].phase = "open"
    /\ LET o == output[1]
           e == EncodeStream(IF o.k = 1 THEN <<>> ELSE <<",">>,
                             input[1].streams[o.k], input[1].chunk_size)
       IN output' = Some([o EXCEPT !.phase = "body", !.at = 0,
                                   !.events = Append(@, Yield("header", o.k, e.open))])
    /\ UNCHANGED <<input, workers, appVars, sessionVars, channel, pc, id_, data,
                   chunks, enqueued, written, closed>>

\* stream.read(chunk_size): a chunk, which is encoded and yielded, or the
\* sentinel, after which the closing chunk is yielded.
GenChunk ==
    /\ output # None
    /\ output[1].phase = "body"
    /\ LET o == output[1]
           t == input[1].streams[o.k]
           left == SubSeq(Items(t), o.at + 1, Len(Items(t)))
           chunk == IF left = <<>> THEN <<>>
                    ELSE iter_read(left, input[1].chunk_size)[1]
       IN output' =
            Some(IF chunk = <<>>
                 THEN [o EXCEPT
                         !.phase = IF o.k = Len(input[1].streams) THEN "end" ELSE "open",
                         !.k = o.k + 1,
                         !.events = @ \o <<Read(o.k, 0), Yield("closing", o.k, <<"\"", "}">>)>>]
                 ELSE [o EXCEPT
                         !.at = o.at + Len(chunk),
                         !.events =
                            @ \o <<Read(o.k, Len(chunk)),
                                   Yield("chunk", o.k,
                                         IF is_binary_stream(t.mime_type)
                                         THEN b64encode(chunk)
                                         ELSE dumps_body(chunk))>>])
    /\ UNCHANGED <<input, workers, appVars, sessionVars, channel, pc, id_, data,
                   chunks, enqueued, written, closed>>

\* The last next(): the terminator.
GenTerminator ==
    /\ output # None
    /\ output[1].phase = "end"
    /\ output' = Some([output[1] EXCEPT
                        !.phase = "done",
                        !.events = Append(@, Yield("terminator", 0, <<"]", "}", "}">>))])
    /\ UNCHANGED <<input, workers, appVars, sessionVars, channel, pc, id_, data,
                   chunks, enqueued, written, closed>>

NextStream ==
    \/ GenPrefix
    \/ GenHeader
    \/ GenChunk
    \/ GenTerminator

SpecStream == InitStream /\ [][NextStream]_vars

(***************************************************************************)
(* Client.log, called by the code of the application on a live session,    *)
(* between the frames the POST workers bring.                              *)
(***************************************************************************)
\* A threshold test that lets through only what is above the threshold.
logAbove(level) ==
    IF LOGGING_LEVELS[level] > logging_level
    THEN Some(Payload(Len(enqueued) + 1, "message", FALSE, FALSE))
    ELSE None

\* Client.log: the `notifications/message` frame it sends, None for none.
log(level) ==
    IF LOGGING_LEVELS[level] >= logging_level
    THEN Some(Payload(Len(enqueued) + 1, "message", FALSE, FALSE))
    ELSE None

\* One call of Client.log; `input` keeps the level of the last call and
\* changes at every call.
Log ==
    /\ pc \in Running
    /\ Len(enqueued) < MaxEvents
    /\ \E level \in DOMAIN LOGGING_LEVELS :
        /\ channel' = send(channel, log(level))
        /\ enqueued' = IF log(level) = None THEN enqueued
                       ELSE Append(enqueued, Len(enqueued) + 1)
        /\ input' = Some([level |-> level,
                          call |-> IF input = None THEN 0 ELSE 1 - input[1].call])
        /\ output' = log(level)
    /\ UNCHANGED <<workers, appVars, sessionVars, pc, id_, data, chunks, written,
                   closed>>

\* The frames that set the threshold, and some that do not.
LogFrames ==
    {f \in Frames :
        f.method \in {<<"logging", ".", "setLevel">>, <<"initialize">>,
                      <<"ping">>}}

PostLog == \E f \in LogFrames : Post(f)

NextLog ==
    \/ PostLog
    \/ Accepted
    \/ Log

SpecLog == Init /\ [][NextLog]_vars

(***************************************************************************)
(* Client.create_rpc_request run by several POST workers of one session,   *)
(* one attribute read or write at a time (the method takes no lock), while *)
(* results arrive, time passes and the sending task runs cleanup.          *)
(***************************************************************************)
requestVars ==
    <<appVars, input, output, capabilities, logging_level, roots, channel,
      last_message_sent, pc, id_, data, kept, waited, chunks, reply, req,
      invoked, enqueued, written, closed, lifecycle, streams>>

\* The callback worker w hands to create_rpc_request.
CallbackOf(w) == ToString(w)

\* self.response_callbacks[key] = value: a key that is there keeps its place.
SetItem(table, entry) ==
    IF Pending(table, entry.id)
    THEN [k \in 1..Len(table) |->
            IF table[k].id = entry.id THEN entry ELSE table[k]]
    ELSE Append(table, entry)

\* `self.request_id += 1`: the read.
LoadId(w) ==
    /\ workers[w].pc = "idle"
    /\ workers' = [workers EXCEPT ![w].pc = "loaded", ![w].tmp = request_id]
    /\ ran' = {}
    /\ UNCHANGED <<requestVars, request_id, response_callbacks, last_cleanup>>

\* `self.request_id += 1`: the write.  The turn is the rank of the write
\* among the writes of the workers.
StoreId(w) ==
    /\ workers[w].pc = "loaded"
    /\ request_id' = workers[w].tmp + 1
    /\ workers' =
        [workers EXCEPT
            ![w].pc = "stored",
            ![w].turn = 1 + Cardinality({v \in 1..MaxWorkers : workers[v].turn > 0})]
    /\ ran' = {}
    /\ UNCHANGED <<requestVars, response_callbacks, last_cleanup>>

\* time.time(), evaluated before the key.
Stamp(w) ==
    /\ workers[w].pc = "stored"
    /\ workers' = [workers EXCEPT ![w].pc = "stamped", ![w].stamp = 0]
    /\ ran' = {}
    /\ UNCHANGED <<requestVars, request_id, response_callbacks, last_cleanup>>

\* The key: self.request_id as it is now.
ReadKey(w) ==
    /\ workers[w].pc = "stamped"
    /\ workers' = [workers EXCEPT ![w].pc = "keyed", ![w].key = request_id]
    /\ ran' = {}
    /\ UNCHANGED <<requestVars, request_id, response_callbacks, last_cleanup>>

\* self.response_callbacks[key] = (stamp, response_callback)
Register(w) ==
    /\ workers[w].pc = "keyed"
    /\ response_callbacks' =
        SetItem(response_callbacks,
                [id |-> workers[w].key, elapsed |-> workers[w].stamp,
                 callback |-> CallbackOf(w)])
    /\ workers' = [workers EXCEPT ![w].pc = "registered"]
    /\ ran' = {}
    /\ UNCHANGED <<requestVars, request_id, last_cleanup>>

\* json.dumps({..., 'id': self.request_id, ...}): the frame that is returned.
Dump(w) ==
    /\ workers[w].pc = "registered"
    /\ workers' = [workers EXCEPT ![w].pc = "done", ![w].frame = request_id]
    /\ ran' = {}
    /\ UNCHANGED <<requestVars, request_id, response_callbacks, last_cleanup>>

\* Client.handle_response for a pending id.
Respond ==
    /\ \E i \in 1..MaxWorkers :
        /\ Pending(response_callbacks, i)
        /\ response_callbacks' = Pop(response_callbacks, i)
    /\ ran' = {"Client.handle_response"}
    /\ UNCHANGED <<requestVars, request_id, workers, last_cleanup>>

\* Client.cleanup when the drop is due, with no other thread in between.
CleanupPass ==
    /\ last_cleanup > CLEANUP_PERIODICITY
    /\ last_cleanup' = 0
    /\ response_callbacks' = DropWhile(response_callbacks)
    /\ ran' = {"Client.cleanup"}
    /\ UNCHANGED <<requestVars, request_id, workers>>

\* One second passes, also for the time a worker has read and not yet stored.
Second ==
    /\ last_cleanup' = Elapse(last_cleanup, CLEANUP_PERIODICITY)
    /\ response_callbacks' = Age(response_callbacks)
    /\ workers' =
        [w \in 1..MaxWorkers |->
            IF workers[w].pc \in {"stamped", "keyed"}
            THEN [workers[w] EXCEPT !.stamp = Elapse(@, CLEANUP_PERIODICITY)]
            ELSE workers[w]]
    /\ ran' = {}
    /\ UNCHANGED <<requestVars, request_id>>

NextRequests ==
    \/ \E w \in 1..MaxWorkers :
        \/ LoadId(w)
        \/ StoreId(w)
        \/ Stamp(w)
        \/ ReadKey(w)
        \/ Register(w)
        \/ Dump(w)
    \/ Respond
    \/ CleanupPass
    \/ Second

SpecRequests == Init /\ [][NextRequests]_vars

(***************************************************************************)
(* prototypes.py: the schema of a handler and the prototype built back     *)
(* from it.  A signature maps each parameter name, a sequence of pieces of *)
(* the name, to whether it has a default.                                  *)
(***************************************************************************)
\* name.endswith(suffix), for a suffix that is one piece
endswith(name, suffix) == name # <<>> /\ name[Len(name)] = suffix

\* A schema that keeps every parameter of the handler.
schemaOfAll(h) ==
    [properties |-> DOMAIN h, required |-> {n \in DOMAIN h : ~h[n]}]

\* proto_to_jsonschema: inputSchema properties and required
proto_to_jsonschema(h) ==
    LET params == {n \in DOMAIN h : n # <<"self">> /\ ~endswith(n, "_service")}
    IN [properties |-> params, required |-> {n \in params : ~h[n]}]

ParamNames ==
    {<<"self">>, <<"a">>, <<"b">>, <<"x", "_service">>, <<"_service", "s">>}

Signatures == UNION {[names -> BOOLEAN] : names \in SUBSET ParamNames}

Prototypings ==
    [h : Signatures, arguments : SUBSET (ParamNames \cup {<<"z">>})]

InitProto ==
    /\ InitSession /\ InitApp /\ InitWorkers /\ pc = "get"
    /\ input \in {Some(c) : c \in Prototypings}
    /\ output = None

\* proto(**arguments), as Tools.call and Prompts.get do it, for the
\* prototype that register built from the handler.
ProtoCall ==
    /\ input # None
    /\ output = None
    /\ output' = Some(proto_call(jsonschema_to_proto(proto_to_jsonschema(input[1].h)),
                                 input[1].arguments))
    /\ UNCHANGED <<input, workers, appVars, sessionVars, channel, pc, id_, data,
                   chunks, enqueued, written, closed>>

SpecProto == InitProto /\ [][ProtoCall]_vars

(***************************************************************************)
(* Prompts.list (prompts.py).  A handler is the function of its parameter  *)
(* names to "has a default"; its parameters are not annotated, so each is  *)
(* a string in the schema.                                                 *)
(***************************************************************************)
\* The keys of the schema of parameter n in inputSchema.properties.
PropertyKeys(h, n) ==
    IF h[n] THEN {<<"default">>, <<"type">>} ELSE {<<"type">>}

\* Prompts.list for one registered prompt: its `arguments`, as the function
\* of the argument names to their `required` flag.
Prompts_list(h) ==
    LET schema == proto_to_jsonschema(h)
        properties == schema.properties
        required == IF <<"required">> \in properties
                    THEN PropertyKeys(h, <<"required">>)
                    ELSE {}
    IN [arguments |-> [n \in properties |-> n \in required]]

PromptParamNames ==
    {<<"self">>, <<"a">>, <<"required">>, <<"type">>, <<"x", "_service">>}

PromptHandlers == UNION {[names -> BOOLEAN] : names \in SUBSET PromptParamNames}

InitPrompts ==
    /\ InitSession /\ InitApp /\ InitWorkers /\ pc = "get"
    /\ input \in {Some([prompt |-> h]) : h \in PromptHandlers}
    /\ output = None

\* prompts/list reaches Prompts.list.
PromptsList ==
    /\ input # None
    /\ output = None
    /\ output' = Some(Prompts_list(input[1].prompt))
    /\ UNCHANGED <<input, workers, appVars, sessionVars, channel, pc, id_, data,
                   chunks, enqueued, written, closed>>

SpecPrompts == InitPrompts /\ [][PromptsList]_vars

(***************************************************************************)
(* The services of one request (ClientServices), built by handle_json_rpc  *)
(* and used by the handler while it runs.                                  *)
(***************************************************************************)
\* ClientServices.__init__
ClientServices(rid, progress_token) ==
    [request_id |-> rid, progress_token |-> progress_token]

\* Request frames: their id, and the `id` and `_meta.progressToken` members
\* of their params, None for a member that is not there.
Requests ==
    [id : {Some(i) : i \in 1..3},
     params_id : {None} \cup {Some(i) : i \in 1..3},
     progressToken : {None} \cup {Some(t) : t \in {"t1", "t2"}}]

InitServices ==
    /\ InitSession /\ InitApp /\ InitWorkers /\ pc = "get"
    /\ input \in {Some(c) : c \in Requests}
    /\ output = None

\* handle_json_rpc: the services handed to the handler of the request.
Serve ==
    /\ input # None
    /\ output = None
    /\ output' = Some([services |-> ClientServices(input[1].params_id,
                                                   input[1].progressToken),
                       sent |-> <<>>])
    /\ UNCHANGED <<input, workers, appVars, sessionVars, channel, pc, id_, data,
                   chunks, enqueued, written, closed>>

\* ClientServices.cancel, called by the handler.
Cancel ==
    /\ output # None
    /\ Len(output[1].sent) < 2
    /\ output' = Some([output[1] EXCEPT !.sent =
            Append(@, [method |-> "notifications/cancelled",
                       value |-> output[1].services.request_id])])
    /\ UNCHANGED <<input, workers, appVars, sessionVars, channel, pc, id_, data,
                   chunks, enqueued, written, closed>>

\* ClientServices.progress, called by the handler.
Progress ==
    /\ output # None
    /\ Len(output[1].sent) < 2
    /\ output[1].services.progress_token # None
    /\ output' = Some([output[1] EXCEPT !.sent =
            Append(@, [method |-> "notifications/progress",
                       value |-> output[1].services.progress_token])])
    /\ UNCHANGED <<input, workers, appVars, sessionVars, channel, pc, id_, data,
                   chunks, enqueued, written, closed>>

NextServices ==
    \/ Serve
    \/ Cancel
    \/ Progress

SpecServices == InitServices /\ [][NextServices]_vars

(***************************************************************************)
(* Properties of the dispatcher, stated on the frame the POST worker       *)
(* holds (req), what handle_json_rpc returned for it (reply) and the       *)
(* handlers it ran (ran).                                                  *)
(***************************************************************************)
IsCall == req # None /\ req[1].method # <<>>

Resolved == Resolve(rpc_exports, Split(Replace(req[1].method)))

\* C1: every frame that carries both `id` and `method` gets exactly one
\* reply with the same id, a result frame or an error frame.
C1_OneReplyWithSameId ==
    (IsCall /\ req[1].id # None) =>
        /\ reply.kind \in {"result", "stream", "error"}
        /\ reply.id = req[1].id

\* C2: for a frame that has `method` and no `id` handle_json_rpc returns
\* null, so nothing is put on the channel for it.
C2_NotificationReturnsNull ==
    (IsCall /\ req[1].id = None) => reply.kind = "none"

\* C3: a method string that does not resolve to an exported handler (an
\* unknown name, or a path that goes on below a handler) is answered with an
\* error frame of code -32601.
C3_UnresolvedIsMethodNotFound ==
    (IsCall /\ Resolved.kind # "func") =>
        /\ reply.kind = "error"
        /\ reply.code = METHOD_NOT_FOUND

\* C4: while `notifications/initialized` has not been received no handler
\* but `initialize` is run, and an `initialize` request that follows an
\* answered one is answered with an error frame.
C4_LifecycleEnforced ==
    IsCall =>
        /\ ~lifecycle.notified => ran \subseteq {"initialize"}
        /\ ("initialize" \in ran /\ lifecycle.initializes >= 2) =>
                reply.kind = "error"

(***************************************************************************)
(* Properties of the sending loops.                                        *)
(***************************************************************************)
\* C5: the ids of the SSE events written in a session are 0, 1, 2, ... in
\* the order written: they start at 0 and each is one more than the last,
\* whatever the interleaving of puts, queue timeouts and pings.
C5_EventIdsCountFromZero ==
    \A k \in 1..Len(written) : written[k].id = k - 1

\* Three events written, a ping among them and one written after it.
C5_Witness ==
    /\ Len(written) >= 3
    /\ \E k \in 1..(Len(written) - 1) : written[k].ping

\* The events written that came off the queue (MCPApp writes its pings
\* without queueing them).
Dequeued == SelectSeq(written, LAMBDA e : e.serial # 0)

\* C6: the events are written in the order their payloads were put on the
\* channel: the k-th event written off the queue is the k-th payload put, so
\* none is written twice and none overtakes an earlier one.
C6_WrittenInQueueOrder ==
    /\ Len(Dequeued) <= Len(enqueued)
    /\ \A k \in 1..Len(Dequeued) : Dequeued[k].serial = enqueued[k]

\* Three payloads written, of which the last two were put while an earlier
\* one was still waiting or being written.
C6_Witness ==
    /\ Len(Dequeued) >= 3
    /\ \E k \in 1..Len(written) : ~written[k].ping /\ written[k].serial > 1

\* C10: in Client.start_sending_loop a dequeued payload that has a close
\* hook has been closed by the time the loop is back at its channel.get or
\* has been left, whether the write completed, a send raised or iterating
\* the payload raised.
C10_ClosedOnEveryPath ==
    (pc \in {"get", "exit"} /\ data # None /\ data[1].close) =>
        closed[data[1].serial] >= 1

\* The loop was left while a lazy payload was being streamed, and the
\* payload is closed.
C10_Witness ==
    /\ pc = "exit"
    /\ data # None
    /\ data[1].close
    /\ chunks >= 1
    /\ closed[data[1].serial] >= 1

(***************************************************************************)
(* Properties of the pending-response table.                               *)
(***************************************************************************)
\* C7: the callback registered for a request id is invoked at most once,
\* whatever the interleaving of handle_response (duplicate results
\* included), create_rpc_request and cleanup.
C7_CallbackAtMostOnce ==
    \A i \in 1..MaxRequests : invoked[i] <= 1

\* The sending task is about to time out on its empty queue or is inside
\* cleanup: the pass that drops old callbacks is at most a second away.
CleanupAtHand == pc \in {"get", "store"} /\ channel = <<>>

\* C8: on a live session, once more than CLEANUP_PERIODICITY seconds have
\* passed since the last cleanup (and the pass that is then due is not just
\* at hand), no pending callback is older than CLEANUP_PERIODICITY seconds.
C8_NoOldCallbackAfterPeriod ==
    (pc \in Running /\ last_cleanup > CLEANUP_PERIODICITY /\ ~CleanupAtHand) =>
        \A k \in 1..Len(response_callbacks) :
            response_callbacks[k].elapsed <= CLEANUP_PERIODICITY

(***************************************************************************)
(* The ping of an idle session.                                            *)
(***************************************************************************)
\* Nothing was written for more than ping_timeout seconds, the channel is
\* empty and the sending task is at its channel.get.
Idle ==
    /\ pc = "get"
    /\ channel = <<>>
    /\ last_message_sent > PingTimeout
    /\ Len(enqueued) < MaxEvents

\* A ping has just been written as a `message` event.
PingWritten ==
    /\ written # <<>>
    /\ written[Len(written)].ping
    /\ written[Len(written)].type_ = "message"
    /\ last_message_sent = 0

\* C9: on a session whose client stays connected, whenever nothing was
\* written for more than ping_timeout seconds and the channel is empty, a
\* ping is eventually put and written as a `message` event.
C9_IdlePingEventuallyWritten == Idle ~> PingWritten

(***************************************************************************)
(* Resources of a streamed response.                                       *)
(***************************************************************************)
\* C11: the streams a resource handler returned for resources/read are
\* closed once the sending loop is done with the response, whether it was
\* written to the end, a send failed or the client went away part-way.
C11_StreamsClosed ==
    (pc \in {"get", "exit"} /\ data # None /\ streams[data[1].serial] # "none") =>
        streams[data[1].serial] = "closed"

(***************************************************************************)
(* MCPApp: the map of channels and the POST route.                         *)
(***************************************************************************)
\* C12: a channel id is in MCPApp.channels exactly from create_channel until
\* the delete_channel that precedes the exit of its sending loop, whatever
\* the other connections do: a connection whose loop has ended (returned or
\* raised) has no entry, and a connected one has not lost its entry.
C12_InMapWhileConnected ==
    \A c \in Conns : (c \in channels) <=> (conn[c] \in Connected)

\* One loop has ended, by either exit, while another connection is served.
C12_Witness ==
    \E c, d \in Conns :
        /\ conn[c] \in {"returned", "raised"}
        /\ c \notin channels
        /\ conn[d] = "loop"
        /\ d \in channels

\* C13: a POST to an id that is not in the map is answered 404 and runs no
\* handler, for every kind of frame.
C13_UnknownSessionIs404 ==
    (post # None /\ ~post[1].known) =>
        (post[1].status = Some(404) /\ post[1].ran = {})

\* C14: a POST to an id that is in the map is answered 202, without an
\* exception leaving the route, for every kind of frame.
C14_PostIs202 ==
    (post # None /\ post[1].known) =>
        (post[1].status = Some(202) /\ ~post[1].raised)

(***************************************************************************)
(* Tools.call and the content of its results.                              *)
(***************************************************************************)
\* The call has returned for a registered tool.
ToolReturned == input # None /\ output # None /\ input[1].name \in Registered

\* The arguments miss a required parameter or name one the tool has not.
Rejected(c) ==
    \/ \E n \in ToolSchema.required : n \notin c.arguments
    \/ \E n \in c.arguments : n \notin ToolSchema.properties

\* The call ended with a successful tool result.
ToolSucceeded ==
    /\ ToolReturned
    /\ output[1].response # None
    /\ ~output[1].response[1].isError

\* C15: Tools.call with arguments the prototype rejects returns an error
\* frame with code -32602 and the request id, and the handler is not called.
C15_RejectedArgumentsAreInvalidParams ==
    (ToolReturned /\ Rejected(input[1])) =>
        /\ output[1].reply = create_rpc_error(input[1].id, INVALID_PARAMS)
        /\ ~output[1].called

\* A call with a missing required parameter, and one with an unknown name.
C15_Witness ==
    /\ ToolReturned
    /\ Rejected(input[1])
    /\ input[1].arguments \in {{}, {"a", "c"}}
    /\ output[1].reply.kind = "error"

\* C16: when the tool handler raises, the frame is a result frame with the
\* request id whose result has isError true and exactly one text item, the
\* exception message; it is never an error frame.
C16_HandlerErrorIsToolError ==
    (ToolReturned /\ ~Rejected(input[1]) /\ input[1].raises) =>
        /\ output[1].reply = create_rpc_response(input[1].id)
        /\ output[1].response # None
        /\ output[1].response[1].isError
        /\ output[1].response[1].content = <<Val("text", input[1].msg, <<>>)>>

C16_Witness ==
    /\ ToolReturned
    /\ input[1].raises
    /\ output[1].called
    /\ output[1].reply.kind = "result"

\* C17: a successful tool result has structuredContent if and only if the
\* tool advertises an outputSchema, whatever the handler returned.
C17_StructuredIffOutputSchema ==
    ToolSucceeded =>
        (output[1].response[1].structuredContent # None
            <=> input[1].with_structured_content)

\* The leaves of a value from left to right; None has none.
RECURSIVE Leaves(_)
Leaves(x) ==
    IF x.t = "none" THEN <<>>
    ELSE IF x.t \notin {"list", "tuple"} THEN <<x>>
    ELSE IF x.items = <<>> THEN <<>>
    ELSE Leaves(Head(x.items)) \o Leaves(Val(x.t, "", Tail(x.items)))

\* The content item of a leaf: itself for a result item, else a text item.
AsItem(x) == IF x.t \in {"text", "image"} THEN x ELSE Val("text", x.v, <<>>)

\* C18: to_content gives the flat list of the items of the leaves of the
\* value, in left-to-right order: nothing for None, one text item for a
\* string or primitive, a result item as it is, and no list inside.
C18_ContentIsFlatLeafOrder ==
    ToolSucceeded =>
        LET content == output[1].response[1].content
            leaves == Leaves(input[1].value)
        IN /\ content = [i \in 1..Len(leaves) |-> AsItem(leaves[i])]
           /\ \A i \in 1..Len(content) : content[i].t \in {"text", "image"}

\* A list holding a tuple of two leaves after another leaf.
C18_Witness ==
    /\ ToolSucceeded
    /\ input[1].value.t = "list"
    /\ Len(input[1].value.items) = 2
    /\ input[1].value.items[1].t = "int"
    /\ input[1].value.items[2].t = "tuple"
    /\ Len(input[1].value.items[2].items) = 2
    /\ Len(output[1].response[1].content) = 3

\* The value serialises to a mapping.
IsMapping(x) == x.t \in {"dict", "text", "image"}

\* C19: in a successful call of a tool with an outputSchema, structuredContent
\* is the value itself when it serialises to a mapping and {result: value}
\* otherwise.
C19_StructuredContentShape ==
    (ToolSucceeded /\ input[1].with_structured_content) =>
        /\ output[1].response[1].structuredContent # None
        /\ output[1].response[1].structuredContent[1].wrapped
                = ~IsMapping(input[1].value)

(***************************************************************************)
(* Resources.read: how a URI is resolved.                                  *)
(***************************************************************************)
\* The template with each placeholder replaced by the value given for it.
RECURSIVE Fill(_, _)
Fill(template, g) ==
    IF template = <<>> THEN <<>>
    ELSE (IF Head(template) \in DOMAIN g THEN g[Head(template)]
          ELSE <<Head(template)>>) \o Fill(Tail(template), g)

Placeholders(template) ==
    {template[i] : i \in {j \in 1..Len(template) : template[j] \in DOMAIN Groups}}

\* The ways to give each placeholder a non-empty value so that the template
\* becomes exactly the URI.
Instances(template, uri) ==
    {g \in [Placeholders(template) ->
                {SubSeq(uri, i, j) : i, j \in 1..Len(uri)} \ {<<>>}] :
        Fill(template, g) = uri}

\* The keyword arguments of an instance.
AsParams(g) ==
    {[name |-> GroupName[Groups[p]], value |-> g[p]] : p \in DOMAIN g}

ReadReturned == input # None /\ output # None /\ "uri" \in DOMAIN input[1]

\* C20: Resources.read calls the handler registered under exactly this URI if
\* there is one; otherwise the first template, in registration order, that
\* the whole URI is an instance of, with the captured values as keywords;
\* otherwise it returns an error frame with code -32602 and calls no handler.
C20_ConcreteThenFirstTemplate ==
    ReadReturned =>
        LET c == input[1]
            uris == c.registered
            called == output[1].called
            concrete == {k \in 1..Len(uris) :
                            Placeholders(uris[k]) = {} /\ uris[k] = c.uri}
            matching == {k \in 1..Len(uris) :
                            /\ Placeholders(uris[k]) # {}
                            /\ Instances(uris[k], c.uri) # {}}
        IN IF concrete # {}
           THEN /\ called # None
                /\ called[1].f \in concrete
                /\ called[1].params = {}
           ELSE IF matching # {}
           THEN /\ called # None
                /\ called[1].f \in matching
                /\ \A k \in matching : called[1].f <= k
                /\ \E g \in Instances(uris[called[1].f], c.uri) :
                        called[1].params = AsParams(g)
           ELSE /\ called = None
                /\ output[1].reply = create_rpc_error(c.id, INVALID_PARAMS)

\* No concrete resource has the URI, two templates match it, and the one
\* registered first is called with what its placeholder captured.
C20_Witness ==
    /\ ReadReturned
    /\ output[1].called # None
    /\ output[1].called[1].params # {}
    /\ \E k \in 1..Len(input[1].registered) :
            /\ k > output[1].called[1].f
            /\ Placeholders(input[1].registered[k]) # {}
            /\ Instances(input[1].registered[k], input[1].uri) # {}

(***************************************************************************)
(* Failures of resource and prompt handlers.                               *)
(***************************************************************************)
\* C21: when the handler of a resource (resources/read) or of a prompt
\* (prompts/get) raises, the dispatcher returns an error frame with code
\* -32603 and the request id: never a result frame, never an exception.
C21_HandlerErrorIsInternalError ==
    (IsCall /\ req[1].raises /\ ran \cap {"resource", "prompt"} # {}) =>
        reply = create_rpc_error(req[1].id, INTERNAL_ERROR)

(***************************************************************************)
(* The streaming encoder.                                                  *)
(***************************************************************************)
RECURSIVE Flatten(_)
Flatten(seqs) == IF seqs = <<>> THEN <<>> ELSE Head(seqs) \o Flatten(Tail(seqs))

\* All the generator yielded, concatenated.
Document(o) ==
    o.head
      \o Flatten([k \in 1..Len(o.streams) |->
                    o.streams[k].open \o Flatten(o.streams[k].chunks)
                        \o o.streams[k].close])
      \o o.tail

\* One step of the lexer of JSON: from state st ("out" of a string, "in" a
\* string, "esc" after a backslash in a string, "bad" from where nothing is
\* read any more) over token t, the next state
\* and the lexemes that end at t: punctuation, "STR" for a string literal,
\* "VAL" for a number or null, "BAD" for what is no lexeme of JSON.
LexStep(st, t) ==
    IF st = "out"
    THEN IF t = "\"" THEN [st |-> "in", out |-> <<>>]
         ELSE IF t \in {"{", "}", "[", "]", ":", ","} THEN [st |-> "out", out |-> <<t>>]
         ELSE IF t \in {"null", "1"} THEN [st |-> "out", out |-> <<"VAL">>]
         ELSE [st |-> "bad", out |-> <<"BAD">>]
    ELSE IF st = "esc"
    THEN (IF t \in {"\"", "\\"} THEN [st |-> "in", out |-> <<>>]
          ELSE [st |-> "bad", out |-> <<"BAD">>])
    ELSE IF t = "\"" THEN [st |-> "out", out |-> <<"STR">>]
    ELSE [st |-> IF t = "\\" THEN "esc" ELSE "in", out |-> <<>>]

\* The lexer over a text, by halves.
RECURSIVE Lex(_, _)
Lex(toks, st) ==
    IF st = "bad" \/ toks = <<>> THEN [st |-> st, out |-> <<>>]
    ELSE IF Len(toks) = 1 THEN LexStep(st, toks[1])
    ELSE LET h == Len(toks) \div 2
             l == Lex(SubSeq(toks, 1, h), st)
             r == Lex(SubSeq(toks, h + 1, Len(toks)), l.st)
         IN [st |-> r.st, out |-> l.out \o r.out]

\* One step of the parser of JSON over lexeme t.  The states: "value" and
\* "element" before a value (an element may also be the end of an empty
\* array), "member" and "key" before a key (a member may also be the end of
\* an empty object), "colon" after a key, "after" after a value, "fail".
\* The stack holds the closing brackets that are due.
ParseStep(c, t) ==
    LET to(st) == [c EXCEPT !.st = st]
        push(b, st) == [stack |-> <<b>> \o c.stack, st |-> st]
        pop == [stack |-> Tail(c.stack), st |-> "after"]
    IN IF c.st \in {"value", "element"}
       THEN IF t \in {"STR", "VAL"} THEN to("after")
            ELSE IF t = "{" THEN push("}", "member")
            ELSE IF t = "[" THEN push("]", "element")
            ELSE IF t = "]" /\ c.st = "element" THEN pop
            ELSE to("fail")
       ELSE IF c.st \in {"key", "member"}
       THEN IF t = "STR" THEN to("colon")
            ELSE IF t = "}" /\ c.st = "member" THEN pop
            ELSE to("fail")
       ELSE IF c.st = "colon"
       THEN (IF t = ":" THEN to("value") ELSE to("fail"))
       ELSE IF c.stack = <<>> THEN to("fail")
       ELSE IF t = "," THEN to(IF Head(c.stack) = "}" THEN "key" ELSE "value")
       ELSE IF t = Head(c.stack) THEN pop
       ELSE to("fail")

\* The parser over the lexemes, by halves.
RECURSIVE Parse(_, _)
Parse(lex, c) ==
    IF c.st = "fail" \/ lex = <<>> THEN c
    ELSE IF Len(lex) = 1 THEN ParseStep(c, lex[1])
    ELSE LET h == Len(lex) \div 2
         IN Parse(SubSeq(lex, h + 1, Len(lex)), Parse(SubSeq(lex, 1, h), c))

\* The text is one JSON value.
IsJson(toks) ==
    LET l == Lex(toks, "out")
    IN /\ l.st = "out"
       /\ Parse(l.out, [stack |-> <<>>, st |-> "value"])
            = [stack |-> <<>>, st |-> "after"]

Encoded == input # None /\ output # None /\ "chunk_size" \in DOMAIN input[1]

\* C22: what the streaming encoder yields, concatenated, is a JSON document,
\* for every id, every list of (uri, mime_type, stream) and every chunk size.
C22_EncoderYieldsJson == Encoded => IsJson(Document(output[1]))

\* The same for URIs without a quote or a backslash.
PlainUrisYieldJson ==
    (Encoded /\ \A k \in 1..Len(input[1].streams) :
                    \A i \in 1..Len(input[1].streams[k].uri) :
                        input[1].streams[k].uri[i] \notin {"\"", "\\"})
        => IsJson(Document(output[1]))

\* C23: for a binary stream and a chunk size that is a multiple of 3, no
\* base64 chunk but the last has `=` in it, and the chunks together are the
\* base64 encoding of the whole stream.
C23_Base64ChunksJoin ==
    (Encoded /\ input[1].chunk_size % 3 = 0) =>
        \A k \in 1..Len(input[1].streams) :
            is_binary_stream(input[1].streams[k].mime_type) =>
                LET cs == output[1].streams[k].chunks IN
                /\ \A n \in 1..(Len(cs) - 1) :
                        \A i \in 1..Len(cs[n]) : cs[n][i] # "="
                /\ Flatten(cs) = b64encode(input[1].streams[k].bytes)

\* A binary stream of two whole chunks and one more byte.
C23_Witness ==
    /\ Encoded
    /\ input[1].chunk_size = 3
    /\ Len(input[1].streams) = 1
    /\ Len(input[1].streams[1].bytes) = 7
    /\ Len(output[1].streams[1].chunks) = 3
    /\ output[1].streams[1].chunks[3][4] = "="

(***************************************************************************)
(* Logging.                                                                *)
(***************************************************************************)
\* C24: a call of Client.log enqueues exactly one `notifications/message`
\* frame if the level is at or above the threshold of the session and nothing
\* otherwise; the threshold is `error` on a new session and changes only
\* through logging/setLevel.
C24_LogAtOrAboveThreshold ==
    /\ logging_level = LOGGING_LEVELS["error"]
    /\ [][/\ input' # input =>
                IF LOGGING_LEVELS[input'[1].level] >= logging_level
                THEN /\ Len(channel') = Len(channel) + 1
                     /\ SubSeq(channel', 1, Len(channel)) = channel
                     /\ channel'[Len(channel')].type_ = "message"
                     /\ ~channel'[Len(channel')].ping
                     /\ Len(enqueued') = Len(enqueued) + 1
                ELSE channel' = channel /\ enqueued' = enqueued
           /\ logging_level' # logging_level =>
                /\ req' # None
                /\ req'[1].method = <<"logging", ".", "setLevel">>
                /\ "Client.set_logging_level" \in ran'
                /\ input' = input]_vars

\* A message logged at the threshold, after logging/setLevel lowered it.
C24_Witness ==
    /\ input # None
    /\ input[1].level = "debug"
    /\ logging_level = LOGGING_LEVELS["debug"]
    /\ output # None
    /\ channel # <<>>
    /\ channel[Len(channel)] = output[1]

(***************************************************************************)
(* Roots.                                                                  *)
(***************************************************************************)
IsInitialized ==
    req # None /\ req[1].method = <<"notifications", "/", "initialized">>

\* The last POST returned a roots/list request whose callback is registered.
RootsRequested ==
    /\ reply.kind = "request"
    /\ reply.id = Some(request_id)
    /\ \E k \in 1..Len(response_callbacks) :
        /\ response_callbacks[k].id = request_id
        /\ response_callbacks[k].callback = "on_roots_received"

\* C25: on notifications/initialized the session issues a roots/list request,
\* with on_roots_received as its callback, if and only if the capabilities
\* recorded for the session contain `roots`.
C25_RootsRequestedIffCapability ==
    IsInitialized => (RootsRequested <=> "roots" \in capabilities)

\* The same for the notifications whose handler was called with the
\* arguments it takes.
RootsRequestedIffCapabilityWhenCalled ==
    (IsInitialized /\ "Client.on_initialized" \in ran) =>
        (RootsRequested <=> "roots" \in capabilities)

IsRootsChanged ==
    /\ req # None
    /\ req[1].method = <<"notifications", "/", "roots", "/", "list_changed">>

\* C26: on every notifications/roots/list_changed the session issues a
\* roots/list request: its callback is registered under a fresh id and the
\* request frame is put on the outbound channel.
C26_RootsChangedIssuesRequest ==
    IsRootsChanged =>
        /\ RootsRequested
        /\ channel # <<>>
        /\ channel[Len(channel)].type_ = "message"
        /\ channel[Len(channel)].serial = enqueued[Len(enqueued)]

(***************************************************************************)
(* Requests of the session built by several workers.                       *)
(***************************************************************************)
Returned == {w \in 1..MaxWorkers : workers[w].pc = "done"}

\* C27: the ids create_rpc_request allocates on one session are pairwise
\* distinct and increase in the order of allocation, and the id in each
\* returned frame is the key under which the callback of that very call was
\* registered, also when several POST workers run it at the same time.
C27_IdsDistinctAndOwned ==
    /\ \A v, w \in Returned : v # w => workers[v].frame # workers[w].frame
    /\ \A v, w \in Returned :
        workers[v].turn < workers[w].turn => workers[v].frame < workers[w].frame
    /\ \A w \in Returned :
        /\ workers[w].frame = workers[w].key
        /\ \A k \in 1..Len(response_callbacks) :
            response_callbacks[k].id = workers[w].frame =>
                response_callbacks[k].callback = CallbackOf(w)

\* C30: right after a cleanup pass that performs the drop, no entry left in
\* the pending-response table is older than CLEANUP_PERIODICITY.
C30_NoExpiredEntryAfterDrop ==
    "Client.cleanup" \in ran =>
        \A k \in 1..Len(response_callbacks) :
            response_callbacks[k].elapsed <= CLEANUP_PERIODICITY

(***************************************************************************)
(* Results that answer nothing.                                            *)
(***************************************************************************)
\* The last POST brought a frame with `result` and an id, and no `method`
\* or `error`.
IsResult ==
    /\ req # None
    /\ req[1].method = <<>>
    /\ req[1].hasResult
    /\ ~req[1].error
    /\ req[1].id # None

\* C28: a frame with `result` whose id matches no pending entry is dropped
\* by handle_json_rpc: no callback is invoked, no frame is enqueued, nothing
\* is raised and the pending-response table is unchanged.
C28_UnmatchedResultDropped ==
    [][(req = None /\ IsResult' /\ ~Pending(response_callbacks, req'[1].id[1])) =>
            /\ response_callbacks' = response_callbacks
            /\ invoked' = invoked
            /\ roots' = roots
            /\ channel' = channel
            /\ enqueued' = enqueued
            /\ reply' = NoReply
            /\ ran' = {}]_vars

\* A second result for an id that was answered, and a result for an id
\* that was never issued, both dropped.
C28_Witness ==
    /\ IsResult
    /\ ~Pending(response_callbacks, req[1].id[1])
    /\ reply = NoReply
    /\ ran = {}
    /\ \/ req[1].id[1] <= request_id /\ invoked[req[1].id[1]] = 1
       \/ req[1].id[1] > request_id /\ request_id > 0

(***************************************************************************)
(* Prototypes.                                                             *)
(***************************************************************************)
Prototyped == input # None /\ output # None /\ "h" \in DOMAIN input[1]

\* The parameters of h but `self` and the names ending in `_service`.
Public(h) ==
    {n \in DOMAIN h : n # <<"self">> /\ n[Len(n)] # "_service"}

\* C29: the prototype built by jsonschema_to_proto(proto_to_jsonschema(h))
\* accepts an argument mapping if and only if its keys include every
\* parameter of h without a default and are all parameters of h, `self` and
\* the names ending in `_service` left out.
C29_PrototypeAcceptsAsHandler ==
    Prototyped =>
        (output[1] <=>
            /\ \A n \in Public(input[1].h) :
                ~input[1].h[n] => n \in input[1].arguments
            /\ input[1].arguments \subseteq Public(input[1].h))

\* A handler with `self`, a service, a required and an optional parameter,
\* called with the required one only.
C29_Witness ==
    /\ Prototyped
    /\ DOMAIN input[1].h = {<<"self">>, <<"x", "_service">>, <<"a">>, <<"b">>}
    /\ ~input[1].h[<<"a">>] /\ input[1].h[<<"b">>]
    /\ ~input[1].h[<<"self">>] /\ ~input[1].h[<<"x", "_service">>]
    /\ input[1].arguments = {<<"a">>}
    /\ output[1]

(***************************************************************************)
(* A cleanup pass next to the POST workers.                                *)
(***************************************************************************)
\* C31: a cleanup pass run by the sending task while POST workers register
\* and answer requests never loses an entry that is not older than
\* CLEANUP_PERIODICITY, never puts back an entry that was popped, and never
\* fails.
C31_CleanupKeepsTableConsistent ==
    [][pc = "store" =>
        /\ pc' # "store" =>
            /\ \A k \in 1..Len(response_callbacks) :
                    response_callbacks[k].elapsed <= CLEANUP_PERIODICITY =>
                        Pending(response_callbacks', response_callbacks[k].id)
            /\ \A k \in 1..Len(response_callbacks') :
                    Pending(response_callbacks, response_callbacks'[k].id)
        /\ ~(pc' = "exit" /\ data # None)]_vars

(***************************************************************************)
(* The order of what the streaming encoder yields.                         *)
(***************************************************************************)
Streaming == input # None /\ output # None /\ "events" \in DOMAIN output[1]

Events == output[1].events

\* The positions of the events of triple k.
Of(k) == {i \in 1..Len(Events) : Events[i].k = k /\ Events[i].part # "prefix"
                                    /\ Events[i].part # "terminator"}

\* The parts yielded for triple k, in order.
Parts(k) ==
    LET ys == SelectSeq(Events, LAMBDA e : e.kind = "yield" /\ e.k = k
                                             /\ e.part \in {"header", "chunk", "closing"})
    IN [i \in 1..Len(ys) |-> ys[i].part]

\* C32: the encoder yields one prefix with the id, then for each triple in
\* input order a header (after a separator but for the first) whose key is
\* `blob` if and only if the MIME type does not start with `text/`, then the
\* chunks of that stream as they are read, to its end, then a closing chunk,
\* and at last one terminator; a stream is read only after everything of
\* the triple before it was yielded.
C32_YieldOrder ==
    Streaming =>
        /\ Events[1].part = "prefix"
        /\ Events[1].data = generate_iterator(input[1].id, <<>>, 1).head
        /\ \A i \in 2..Len(Events) : Events[i].part # "prefix"
        /\ \A i, j \in 1..Len(Events) :
            (i < j /\ i \in Of(Events[i].k) /\ j \in Of(Events[j].k)) =>
                /\ Events[i].k <= Events[j].k
                /\ (Events[i].k < Events[j].k /\ Events[j].kind = "read") =>
                        \E c \in i..(j - 1) :
                            Events[c].part = "closing" /\ Events[c].k = Events[i].k
        /\ \A k \in 1..Len(input[1].streams) :
            LET ps == Parts(k) IN
            /\ \A i \in 1..Len(ps) :
                /\ ps[i] = "header" <=> i = 1
                /\ ps[i] = "closing" => i = Len(ps)
            /\ \A i \in Of(k) :
                /\ Events[i].part = "header" =>
                    /\ (Events[i].data[1] = ",") <=> (k > 1)
                    /\ Events[i].data[Len(Events[i].data) - 3] =
                        (IF input[1].streams[k].mime_type[1] = "text/"
                         THEN "text" ELSE "blob")
                /\ Events[i].part = "chunk" =>
                    /\ Events[i - 1].kind = "read" /\ Events[i - 1].k = k
                    /\ Events[i - 1].data # <<>>
        /\ output[1].phase = "done" =>
            /\ Events[Len(Events)].part = "terminator"
            /\ \A i \in 1..(Len(Events) - 1) : Events[i].part # "terminator"
            /\ \A k \in 1..Len(input[1].streams) :
                /\ Parts(k) # <<>>
                /\ Parts(k)[Len(Parts(k))] = "closing"
                /\ Len(Flatten([i \in 1..Len(Events) |->
                        IF Events[i].kind = "read" /\ Events[i].k = k
                        THEN Events[i].data ELSE <<>>]))
                    = Len(input[1].streams[k].text) + Len(input[1].streams[k].bytes)

\* Two triples, text after binary, both read in more than one chunk.
C32_Witness ==
    /\ Streaming
    /\ output[1].phase = "done"
    /\ Len(input[1].streams) = 2
    /\ Parts(1) = <<"header", "chunk", "chunk", "closing">>
    /\ Parts(2) = <<"header", "chunk", "chunk", "closing">>
    /\ input[1].streams[1].mime_type = <<"application/", "text/">>
    /\ input[1].streams[2].mime_type = <<"text/", "plain">>

(***************************************************************************)
(* The services of a request.                                              *)
(***************************************************************************)
Served == input # None /\ output # None /\ "services" \in DOMAIN output[1]

\* C33: the services injected for a request frame are bound to the id of
\* that frame: a notifications/cancelled sent through the cancel helper
\* carries that id as requestId, and progress notifications carry the
\* _meta.progressToken of the frame.
C33_ServicesBoundToRequest ==
    Served =>
        \A i \in 1..Len(output[1].sent) :
            LET n == output[1].sent[i] IN
            /\ n.method = "notifications/cancelled" => n.value = input[1].id
            /\ n.method = "notifications/progress" => n.value = input[1].progressToken

\* The part of C33 about progress notifications.
ProgressCarriesToken ==
    Served =>
        \A i \in 1..Len(output[1].sent) :
            output[1].sent[i].method = "notifications/progress" =>
                output[1].sent[i].value = input[1].progressToken

(***************************************************************************)
(* completion/complete.                                                    *)
(***************************************************************************)
\* The POST worker handled a completion/complete request whose parameters
\* Client.complete takes.
IsComplete ==
    /\ IsCall
    /\ req[1].method = <<"completion", "/", "complete">>
    /\ req[1].id # None
    /\ "Client.complete" \in ran

\* One response carrying the id of the request, from handler h.
AnsweredBy(h) ==
    /\ h \in ran
    /\ reply.kind \in {"result", "error"}
    /\ reply.id = req[1].id

\* C34: completion/complete dispatches on ref.type: `ref/prompt` reaches
\* Prompts.complete and `ref/resource` reaches Resources.complete, each
\* answering once with the id of the request; every other ref.type is
\* answered by a -32601 error frame with the id of the request.
C34_CompleteDispatchesOnRefType ==
    IsComplete =>
        CASE req[1].refType = <<"ref/", "prompt">> -> AnsweredBy("Prompts.complete")
          [] req[1].refType = <<"ref/", "resource">> -> AnsweredBy("Resources.complete")
          [] OTHER -> reply = create_rpc_error(req[1].id, METHOD_NOT_FOUND)

\* The same for the ref.type values that start with `ref/`.
PrefixedRefTypeDispatches ==
    (IsComplete /\ req[1].refType # None /\ Head(req[1].refType) = "ref/") =>
        CASE req[1].refType = <<"ref/", "prompt">> -> AnsweredBy("Prompts.complete")
          [] req[1].refType = <<"ref/", "resource">> -> AnsweredBy("Resources.complete")
          [] OTHER -> reply = create_rpc_error(req[1].id, METHOD_NOT_FOUND)

(***************************************************************************)
(* Result frames POSTed to MCPApp.                                         *)
(***************************************************************************)
\* C35: in the POST route of MCPApp a result frame invokes the response
\* handler the last server-issued request installed and clears it; a result
\* frame that finds no handler installed invokes none and raises no error.
C35_ResultConsumesHandler ==
    [][(post = None /\ post' # None /\ post'[1].kind = "result") =>
            /\ response_handler' = None
            /\ ~post'[1].raised
            /\ post'[1].ran =
                  IF response_handler = None THEN {} ELSE {"on_roots_received"}]_vars

\* The part of C35 that holds: an installed handler is invoked with the
\* result.
InstalledHandlerInvoked ==
    [][(post = None /\ post' # None /\ post'[1].kind = "result"
            /\ response_handler # None) =>
            /\ post'[1].ran = {"on_roots_received"}
            /\ ~post'[1].raised]_vars

(***************************************************************************)
(* An iteration of the sending loop that times out.                        *)
(***************************************************************************)
\* A step of the iteration in which channel.get raised queue.Empty: the
\* timeout with the start of cleanup, or the end of a cleanup that drops.
TimedOutStep ==
    \/ pc = "get" /\ channel = <<>> /\ waited /\ ~waited'
    \/ pc = "store" /\ kept' = None

\* C36: an iteration of start_sending_loop that times out on the empty
\* queue does cleanup only: it writes no event, uses no SSE id, calls the
\* close hook of no payload (not that of the payload sent before either)
\* and does not end the loop.
C36_TimeoutOnlyCleansUp ==
    [][TimedOutStep =>
            /\ written' = written
            /\ id_' = id_
            /\ closed' = closed
            /\ pc' # "exit"]_vars

\* The part of C36 that holds: nothing is written, no id is used and the
\* loop goes on.
TimeoutWritesNothing ==
    [][TimedOutStep =>
            /\ written' = written
            /\ id_' = id_
            /\ pc' # "exit"]_vars

(***************************************************************************)
(* Delivery of the frames put on the queue.                                *)
(***************************************************************************)
\* Payload n was put on the channel.
WasPut(n) == \E k \in 1..Len(enqueued) : enqueued[k] = n

\* An event was written for payload n.
WasWritten(n) == \E k \in 1..Len(written) : written[k].serial = n

\* C37: while the client stays connected and the sending task is scheduled,
\* every frame put on the queue of the session is eventually written to the
\* SSE stream, whatever payloads were put before it.
C37_EnqueuedEventuallyWritten ==
    \A n \in 1..MaxEvents : WasPut(n) ~> WasWritten(n)

(***************************************************************************)
(* Sessions of MCPApp.                                                     *)
(***************************************************************************)
\* The fields of the application as the last POST to session c left them.
Mine(c) == output[1].seen[c]

\* C38: the sessions of MCPApp are isolated: a frame POSTed to a session
\* reads the client capabilities and the pending response handler that the
\* frames of that same session left, and leaves the roots the other
\* sessions reported as they were.
C38_SessionsIsolated ==
    [][(post = None /\ post' # None /\ post'[1].known) =>
            LET c == post'[1].channel_id IN
            /\ "MCPApp.on_initialized" \in post'[1].ran =>
                    client_capabilities = Mine(c).client_capabilities
            /\ post'[1].kind = "result" =>
                    response_handler = Mine(c).response_handler
            /\ \A d \in channels \ {c} :
                    Mine(d).posted => app_roots' = Mine(d).app_roots]_vars

(***************************************************************************)
(* The URI of the contents of resources/read.                              *)
(***************************************************************************)
\* C39: each entry of `contents` of a resources/read response carries the
\* URI the client requested, also when a template resolved it, and the
\* handler is called with that same URI.
C39_ContentsCarryRequestedUri ==
    (ReadReturned /\ output[1].called # None) =>
        /\ output[1].called[1].uri = input[1].uri
        /\ \A k \in 1..Len(output[1].streams) :
                output[1].streams[k] = input[1].uri

\* The same for the reads a concrete resource answers.
ConcreteContentsCarryRequestedUri ==
    (ReadReturned /\ output[1].called # None /\ output[1].called[1].params = {}
        /\ Placeholders(input[1].registered[output[1].called[1].f]) = {}) =>
        /\ output[1].called[1].uri = input[1].uri
        /\ \A k \in 1..Len(output[1].streams) :
                output[1].streams[k] = input[1].uri

(***************************************************************************)
(* The arguments of prompts/list.                                          *)
(***************************************************************************)
Listed == input # None /\ output # None /\ "prompt" \in DOMAIN input[1]

\* C40: in the result of prompts/list the `required` flag of each argument
\* is true if and only if the parameter of the handler has no default, which
\* is the set of arguments Prompts.get requires.
C40_RequiredIffNoDefault ==
    Listed =>
        /\ \A n \in DOMAIN output[1].arguments :
                output[1].arguments[n] <=> ~input[1].prompt[n]
        /\ {n \in DOMAIN output[1].arguments : output[1].arguments[n]}
                = proto_to_jsonschema(input[1].prompt).required

\* The part of C40 that holds: the arguments listed are the parameters of
\* the handler that Prompts.get takes.
ListedArgumentsAreParameters ==
    Listed => DOMAIN output[1].arguments = Public(input[1].prompt)

====
